---- MODULE Spec2Model ----
(***************************************************************************)
(* A model of the unz compression engine (github.com/ha1tch/unz):          *)
(*   pkg/bpe       greedy longest-match BPE tokenizer                      *)
(*   pkg/ans       rANS entropy coder (14-bit model, byte renormalisation) *)
(*   pkg/compress  method selection and the PKZIP container                *)
(* Byte strings are sequences of integers 0..255.  Go slices are 0-based;  *)
(* Slice(d, a, b) is d[a:b].  32-bit quantities that can exceed 2^31-1     *)
(* (CRC-32 values, external attributes) are kept as their four             *)
(* little-endian bytes.                                                    *)
(***************************************************************************)
EXTENDS Integers, Sequences, FiniteSets, TLC

VARIABLES bpe, ans, comp, req, entries, zip, files, out, pc, shared, procs

vars == <<bpe, ans, comp, req, entries, zip, files, out, pc, shared, procs>>

(***************************************************************************)
(* Bounds of the model.                                                    *)
(***************************************************************************)
\* Longest input enumerated exhaustively over Alphabet.
MaxLen == 3
\* Repetitions of a pattern in the long inputs (long enough for the 520-byte
\* rANS header to pay off).
LongReps == 300
\* Most entries added to one Archive.
MaxEntries == 2

(***************************************************************************)
(* Bytes and slices.                                                       *)
(***************************************************************************)
Byte == 0..255

Slice(d, a, b) == SubSeq(d, a + 1, b)

\* A loop "for i := lo; i <= hi; i++ { s = Op(s, i) }".  The range is halved and
\* the first half is evaluated before the second starts ({left} # {} is true
\* of every value), which keeps the evaluation depth logarithmic.
RECURSIVE FoldRange(_, _, _, _)
FoldRange(Op(_, _), s, lo, hi) ==
    IF lo > hi THEN s
    ELSE IF lo = hi THEN Op(s, lo)
    ELSE LET mid == (lo + hi) \div 2
             left == FoldRange(Op, s, lo, mid)
         IN IF {left} # {} THEN FoldRange(Op, left, mid + 1, hi) ELSE left

\* bytes.Repeat
Repeat(p, n) == [i \in 1..(n * Len(p)) |-> p[((i - 1) % Len(p)) + 1]] \o <<>>

RECURSIVE Pow2(_)
Pow2(n) == IF n = 0 THEN 1 ELSE 2 * Pow2(n - 1)

\* binary.LittleEndian.PutUint16 / PutUint32 / Uint16 / Uint32
PutUint16(v) == <<v % 256, (v \div 256) % 256>>

PutUint32(v) == <<v % 256, (v \div 256) % 256, (v \div 65536) % 256, (v \div 16777216) % 256>>

Uint16(d, off) == d[off + 1] + 256 * d[off + 2]

Uint32(d, off) == d[off + 1] + 256 * d[off + 2] + 65536 * d[off + 3] + 16777216 * d[off + 4]

\* Sequences over S of length at most n.
SeqsUpTo(S, n) == UNION {[1..k -> S] : k \in 0..n}

(***************************************************************************)
(* hash/crc32.ChecksumIEEE: reflected CRC-32, polynomial 0xEDB88320,       *)
(* initial value and final xor 0xFFFFFFFF.  A 32-bit word is the sequence  *)
(* of its bits, the least significant first.                               *)
(***************************************************************************)
crcPolyBits == [i \in 1..32 |-> IF i - 1 \in {5, 8, 9, 15, 19, 20, 21, 23, 24, 26, 27, 29, 30, 31}
                                THEN 1 ELSE 0] \o <<>>

byteBit(b, i) == (b \div Pow2(i)) % 2

\* crc = (crc >> 1) ^ (poly if crc & 1)
crcShift(w) == [i \in 1..32 |-> LET s == IF i = 32 THEN 0 ELSE w[i + 1]
                                IN IF w[1] = 1 THEN (s + crcPolyBits[i]) % 2 ELSE s] \o <<>>

RECURSIVE crcShifts(_, _)
crcShifts(w, n) == IF n = 0 THEN w ELSE crcShifts(crcShift(w), n - 1)

crcByte(w, b) ==
    crcShifts([i \in 1..32 |-> IF i <= 8 THEN (w[i] + byteBit(b, i - 1)) % 2 ELSE w[i]] \o <<>>, 8)

crcUpdate(w, d) == FoldRange(LAMBDA x, i : crcByte(x, d[i]), w, 1, Len(d))

wordByte(w, k) == w[8*k+1] + 2*w[8*k+2] + 4*w[8*k+3] + 8*w[8*k+4]
                   + 16*w[8*k+5] + 32*w[8*k+6] + 64*w[8*k+7] + 128*w[8*k+8]

\* w ^ 0xFFFFFFFF
crcInvert(w) == [i \in 1..32 |-> 1 - w[i]] \o <<>>

wordBytes(w) == <<wordByte(w, 0), wordByte(w, 1), wordByte(w, 2), wordByte(w, 3)>>

\* The checksum as the four bytes PutUint32 writes for it.
ChecksumIEEE(d) == wordBytes(crcInvert(crcUpdate([i \in 1..32 |-> 1] \o <<>>, d)))

(***************************************************************************)
(* pkg/bpe: vocabulary, trie, greedy encoder.                              *)
(* A token map (Go map[string]int) is the set of its <<token, rank>>       *)
(* pairs.  A Vocabulary is [tokens |-> sequence of byte strings], token id *)
(* i at index i+1; byteToID is the inverse of tokens.                      *)
(***************************************************************************)
\* NewVocabulary: ids are assigned in ascending rank order (sort.Slice by rank).
NewVocabulary(tokenRanks) ==
    LET byID == {<<Cardinality({q \in tokenRanks : q[2] < p[2]}), p[1]>> : p \in tokenRanks}
    IN [tokens |-> [i \in 1..Cardinality(tokenRanks) |->
                        (CHOOSE x \in byID : x[1] = i - 1)[2]] \o <<>>]

VocabSize(v) == Len(v.tokens)

\* Vocabulary.GetID: <<id, ok>>
GetID(v, bytes) == IF \E i \in 1..Len(v.tokens) : v.tokens[i] = bytes
                   THEN <<(CHOOSE i \in 1..Len(v.tokens) : v.tokens[i] = bytes) - 1, TRUE>>
                   ELSE <<0, FALSE>>

\* Vocabulary.Decode: ids outside the vocabulary are skipped.
VocabDecode(v, ids) ==
    FoldRange(LAMBDA acc, i : IF ids[i] >= 0 /\ ids[i] < Len(v.tokens)
                              THEN acc \o v.tokens[ids[i] + 1] ELSE acc,
              <<>>, 1, Len(ids))

\* A FastTrie is [nodes |-> the byte strings that label a node (the root is <<>>),
\*               tokenID |-> node -> id for the nodes with isToken].
NewFastTrie == [nodes |-> {<<>>}, tokenID |-> <<>>]

\* FastTrie.Insert
Insert(t, token, id) ==
    [nodes   |-> t.nodes \cup {SubSeq(token, 1, k) : k \in 0..Len(token)},
     tokenID |-> (token :> id) @@ t.tokenID]

RECURSIVE longestMatchFrom(_, _, _, _, _)
longestMatchFrom(t, text, i, bestLen, bestID) ==
    IF i > Len(text) \/ SubSeq(text, 1, i) \notin t.nodes
    THEN <<bestLen, bestID>>
    ELSE IF SubSeq(text, 1, i) \in DOMAIN t.tokenID
         THEN longestMatchFrom(t, text, i + 1, i, t.tokenID[SubSeq(text, 1, i)])
         ELSE longestMatchFrom(t, text, i + 1, bestLen, bestID)

\* LongestMatch returning at the first token it meets.
FirstMatch(t, text) ==
    IF \E k \in 1..Len(text) : SubSeq(text, 1, k) \in DOMAIN t.tokenID
    THEN <<CHOOSE k \in 1..Len(text) : /\ SubSeq(text, 1, k) \in DOMAIN t.tokenID
                                       /\ \A j \in 1..(k - 1) : SubSeq(text, 1, j) \notin DOMAIN t.tokenID,
           t.tokenID[SubSeq(text, 1, CHOOSE k \in 1..Len(text) :
                                        /\ SubSeq(text, 1, k) \in DOMAIN t.tokenID
                                        /\ \A j \in 1..(k - 1) : SubSeq(text, 1, j) \notin DOMAIN t.tokenID)]>>
    ELSE <<0, -1>>

\* FastTrie.LongestMatch: <<length, tokenID>>, <<0, -1>> when nothing matches.
LongestMatch(t, text) == longestMatchFrom(t, text, 1, 0, -1)

\* NewEncoder: every token of the vocabulary is inserted in a fresh trie.
NewEncoder(v) ==
    [vocab |-> v,
     trie  |-> FoldRange(LAMBDA t, i : Insert(t, v.tokens[i], i - 1), NewFastTrie, 1, Len(v.tokens))]

\* The id Encode appends when nothing matches: the id of the single byte, or
\* the byte value itself when the vocabulary lacks it; g is GetID's result.
fallbackID(g, b) == IF g[2] THEN g[1] ELSE b

\* encodeMatch with "pos++" in place of "pos += matchLen".
encodeMatchByOne(e, text, pos, m) ==
    IF m[1] = 0
    THEN <<fallbackID(GetID(e.vocab, Slice(text, pos, pos + 1)), text[pos + 1]), pos + 1>>
    ELSE <<m[2], pos + 1>>

\* The body of Encode's loop once the longest match m = <<matchLen, tokenID>>
\* at pos is known: <<id appended, next position>>.
encodeMatch(e, text, pos, m) ==
    IF m[1] = 0
    THEN <<fallbackID(GetID(e.vocab, Slice(text, pos, pos + 1)), text[pos + 1]), pos + 1>>
    ELSE <<m[2], pos + m[1]>>

\* One iteration of Encode's loop at position pos (0-based).
encodeStep(e, text, pos) ==
    encodeMatch(e, text, pos, LongestMatch(e.trie, Slice(text, pos, Len(text))))

\* s = <<pos, ids>> after the step st = <<id, next position>>.
encodeAdvance(s, st) == <<st[2], Append(s[2], st[1])>>

\* Encoder.Encode: the steps at the positions the loop visits.
Encode(e, text) ==
    FoldRange(LAMBDA s, i : IF s[1] # i THEN s ELSE encodeAdvance(s, encodeStep(e, text, i)),
              <<0, <<>>>>, 0, Len(text) - 1)[2]

\* Encoder.Decode
Decode(e, ids) == VocabDecode(e.vocab, ids)

(***************************************************************************)
(* pkg/ans: rANS with a 14-bit probability model.                          *)
(* A SymbolTable is [freq, cum]: Symbols[s].Freq and Symbols[s].CumFreq at *)
(* index s+1.  CumToSym is read through CumToSymAt.                        *)
(***************************************************************************)
ProbBits == 14

ProbScale == 16384

RansL == 8388608

Sum(f) == FoldRange(LAMBDA acc, i : acc + f[i], 0, 1, Len(f))

\* The index (0-based) of the first largest element: the loop
\* "if n > normalized[maxIdx] { maxIdx = i }".
firstMax(f) == FoldRange(LAMBDA m, i : IF f[i] > f[m + 1] THEN i - 1 ELSE m, 0, 1, Len(f))

\* normalized[i] = max(1, count * ProbScale / total) for the symbols that occur.
normalizeCounts(counts, total) ==
    [i \in 1..256 |-> IF counts[i] = 0 THEN 0
                      ELSE IF (counts[i] * ProbScale) \div total = 0 THEN 1
                      ELSE (counts[i] * ProbScale) \div total] \o <<>>

\* adjustLargest without the branch that takes the excess off.
adjustLargestUpOnly(norm, normTotal) ==
    IF normTotal >= ProbScale THEN norm
    ELSE [norm EXCEPT ![firstMax(norm) + 1] = @ + (ProbScale - normTotal)]

\* "normalized[maxIdx] -= normTotal - ProbScale" or "+= ProbScale - normTotal"
\* when the sum is off; a frequency below 0 stands for the uint32 that the
\* subtraction would wrap to.
adjustLargest(norm, normTotal) ==
    IF normTotal = ProbScale THEN norm
    ELSE [norm EXCEPT ![firstMax(norm) + 1] = @ + (ProbScale - normTotal)]

\* The running sum "cumFreq" of the table-building loop.
cumFreqs(normalized) ==
    FoldRange(LAMBDA acc, i : Append(acc, IF i = 1 THEN 0 ELSE acc[i - 1] + normalized[i - 1]),
              <<>>, 1, 256)

tableOf(normalized) == [freq |-> normalized, cum |-> cumFreqs(normalized)]

normalizedTable(norm) == tableOf(adjustLargest(norm, Sum(norm)))

buildFrom(counts, total) ==
    IF total = 0
    THEN [freq |-> [i \in 1..256 |-> IF i = 1 THEN ProbScale ELSE 0] \o <<>>,
          cum  |-> [i \in 1..256 |-> 0] \o <<>>]
    ELSE normalizedTable(normalizeCounts(counts, total))

\* BuildTable
BuildTable(counts) == buildFrom(counts, Sum(counts))

\* The largest symbol among those whose range holds the slot, 0 if none.
lastOwner(owners) == IF owners = {} THEN 0 ELSE (CHOOSE i \in owners : \A j \in owners : j <= i) - 1

\* tab.CumToSym[slot]: the symbol whose range the table-building loop wrote last
\* over the slot, 0 where it wrote nothing.
CumToSymAt(tab, slot) ==
    lastOwner({i \in 1..256 : tab.freq[i] > 0 /\ tab.cum[i] <= slot /\ slot < tab.cum[i] + tab.freq[i]})

\* NewEncoder (ans): the encoder is [state, output].
NewAnsEncoder == [state |-> RansL, output |-> <<>>]

\* Encoder.Reset
AnsReset(e) == [state |-> RansL, output |-> SubSeq(e.output, 1, 0)]

\* The renormalisation loop with maxState = 2^16 * freq.
RECURSIVE encRenormEarly(_, _)
encRenormEarly(e, freq) ==
    IF e.state \div freq >= 65536
    THEN encRenormEarly([state |-> e.state \div 256, output |-> Append(e.output, e.state % 256)], freq)
    ELSE e

\* The renormalisation loop of Encoder.Encode: while state >= maxState, with
\* maxState = ((RansL >> ProbBits) << 8) * freq = 2^17 * freq; the comparison is
\* made on state \div freq so that 2^17 * 16384 = 2^31 is never formed.
RECURSIVE encRenorm(_, _)
encRenorm(e, freq) ==
    IF e.state \div freq >= 131072
    THEN encRenorm([state |-> e.state \div 256, output |-> Append(e.output, e.state % 256)], freq)
    ELSE e

\* state = ((state / freq) << ProbBits) + cumFreq + (state % freq), on the
\* renormalised encoder r.
encPush(r, freq, cum) ==
    [state |-> (r.state \div freq) * ProbScale + cum + (r.state % freq), output |-> r.output]

encodeWith(e, freq, cum) == IF freq = 0 THEN e ELSE encPush(encRenorm(e, freq), freq, cum)

\* Encoder.Encode
AnsEncode(e, sym, tab) == encodeWith(e, tab.freq[sym + 1], tab.cum[sym + 1])

Reverse(q) == [i \in 1..Len(q) |-> q[Len(q) + 1 - i]] \o <<>>

\* Finish without reversing the output.
FinishUnreversed(e) == PutUint32(e.state) \o e.output

\* Encoder.Finish
Finish(e) == PutUint32(e.state) \o Reverse(e.output)

\* counts[b]++ for every byte of data
countBytes(data) ==
    FoldRange(LAMBDA c, i : [c EXCEPT ![data[i] + 1] = @ + 1], [i \in 1..256 |-> 0] \o <<>>, 1, Len(data))

\* The output of Compress once the encoder has finished: [len:4][freqs:256*2][compressed]
ansFrame(n, tab, compressed) ==
    PutUint32(n)
    \o ([k \in 1..512 |-> PutUint16(tab.freq[((k - 1) \div 2) + 1])[((k - 1) % 2) + 1]] \o <<>>)
    \o compressed

\* The body of Compress once the table is built: the symbols are encoded in
\* reverse order.
compressWith(data, tab) ==
    ansFrame(Len(data), tab,
             Finish(FoldRange(LAMBDA e, k : AnsEncode(e, data[Len(data) + 1 - k], tab),
                              NewAnsEncoder, 1, Len(data))))

\* ans.Compress
AnsCompress(data) ==
    IF Len(data) = 0 THEN <<0, 0, 0, 0>> ELSE compressWith(data, BuildTable(countBytes(data)))

\* The renormalisation loop of Decoder.Decode; the decoder is [state, pos] over data.
RECURSIVE decRenorm(_, _)
decRenorm(d, data) ==
    IF d.state < RansL /\ d.pos < Len(data)
    THEN decRenorm([state |-> d.state * 256 + data[d.pos + 1], pos |-> d.pos + 1], data)
    ELSE d

\* state = freq * (state >> ProbBits) + cumFreq - symbol.CumFreq, then renormalise.
decodeSym(d, data, tab, sym) ==
    <<decRenorm([state |-> tab.freq[sym + 1] * (d.state \div ProbScale)
                           + (d.state % ProbScale) - tab.cum[sym + 1],
                 pos   |-> d.pos], data),
      sym>>

\* Decoder.Decode: <<the decoder after the step, the symbol>>
AnsDecode(d, data, tab) == decodeSym(d, data, tab, CumToSymAt(tab, d.state % ProbScale))

\* s = <<decoder, result>> after the step st = <<decoder, symbol>>.
decodeAdvance(s, st) == <<st[1], Append(s[2], st[2])>>

\* The loop of Decompress over the bytes that follow the frequency table.
decodeAll(body, tab, origLen) ==
    FoldRange(LAMBDA s, i : decodeAdvance(s, AnsDecode(s[1], body, tab)),
              <<[state |-> Uint32(body, 0), pos |-> 4], <<>>>>, 1, origLen)[2]

\* ans.Decompress: [err, data]
AnsDecompress(data) ==
    IF Len(data) < 4 THEN [err |-> "ans: corrupted data", data |-> <<>>]
    ELSE IF Uint32(data, 0) = 0 THEN [err |-> "nil", data |-> <<>>]
    ELSE IF Len(data) < 4 + 256 * 2 + 4 THEN [err |-> "ans: corrupted data", data |-> <<>>]
    ELSE [err  |-> "nil",
          data |-> decodeAll(Slice(data, 4 + 256 * 2, Len(data)),
                             BuildTable([i \in 1..256 |-> Uint16(data, 4 + (i - 1) * 2)] \o <<>>),
                             Uint32(data, 0))]

(***************************************************************************)
(* Vocabularies.                                                           *)
(***************************************************************************)
\* bpe.CreateBasicVocab: the 256 single bytes, rank = byte value.
basicTokens == {<<<<b>>, b>> : b \in Byte}

CreateBasicVocab == NewVocabulary(basicTokens)

\* A token map: basicTokens extended by the pairs <<token, rank>> of merges.
withMerges(merges) == basicTokens \cup merges

\* The vocabulary of the package's tests: "th" "he" "in" "er" "the".
testVocab == NewVocabulary(withMerges({<<<<116, 104>>, 256>>, <<<<104, 101>>, 257>>,
                                       <<<<105, 110>>, 258>>, <<<<101, 114>>, 259>>,
                                       <<<<116, 104, 101>>, 260>>}))

\* A vocabulary whose ranks are not dense and whose merged tokens rank below
\* the single bytes, so that ids differ from ranks.
sparseVocab == NewVocabulary({<<<<b>>, 10 + 2 * b>> : b \in Byte}
                             \cup {<<<<116, 104>>, 3>>, <<<<104, 104, 101>>, 7>>})

\* A vocabulary without the single bytes, as in the package's own tests
\* ("t", "h" and "th" only): Encode falls back to the raw byte value as id.
partialVocab == NewVocabulary({<<<<116>>, 0>>, <<<<104>>, 1>>, <<<<116, 104>>, 2>>})

\* pkg/vocab: the embedded token tables (defaultTokens, GoTokens, PythonTokens,
\* JSTokens) are data files; each holds the 256 single bytes and the merges
\* trained for its language.
defaultTokens == withMerges({<<<<116, 104>>, 256>>, <<<<104, 101>>, 257>>, <<<<116, 104, 101>>, 258>>})

GoTokens == withMerges({<<<<104, 101>>, 256>>, <<<<116, 104>>, 257>>})

PythonTokens == withMerges({<<<<116, 116>>, 256>>, <<<<101, 101>>, 257>>, <<<<104, 116>>, 258>>})

JSTokens == withMerges({<<<<101, 116>>, 256>>, <<<<116, 104>>, 257>>})

defaultVocab == NewVocabulary(defaultTokens)

goVocab == NewVocabulary(GoTokens)

pythonVocab == NewVocabulary(PythonTokens)

jsVocab == NewVocabulary(JSTokens)

\* vocab.ForLanguage
ForLanguage(lang) == CASE lang = "Go" -> goVocab
                       [] lang = "Python" -> pythonVocab
                       [] lang = "JavaScript" -> jsVocab
                       [] OTHER -> defaultVocab

(***************************************************************************)
(* The tokenizer as a state machine: bpe holds one Encoder, the text it    *)
(* is encoding, the loop position of Encode and the ids appended so far.   *)
(***************************************************************************)
Alphabet == {116, 104, 101}

BpeAlphabet == Alphabet \cup {0, 255}

VocabNames == {"basic", "test", "sparse", "partial", "default", "Go", "Python", "JavaScript"}

VocabOf(name) == CASE name = "basic" -> CreateBasicVocab
                   [] name = "test" -> testVocab
                   [] name = "sparse" -> sparseVocab
                   [] name = "partial" -> partialVocab
                   [] OTHER -> ForLanguage(name)

basicEncoder == NewEncoder(CreateBasicVocab)

testEncoder == NewEncoder(testVocab)

sparseEncoder == NewEncoder(sparseVocab)

partialEncoder == NewEncoder(partialVocab)

defaultEncoder == NewEncoder(defaultVocab)

goEncoderV == NewEncoder(goVocab)

pyEncoderV == NewEncoder(pythonVocab)

jsEncoderV == NewEncoder(jsVocab)

EncoderOf(name) == CASE name = "basic" -> basicEncoder
                     [] name = "test" -> testEncoder
                     [] name = "sparse" -> sparseEncoder
                     [] name = "partial" -> partialEncoder
                     [] name = "Go" -> goEncoderV
                     [] name = "Python" -> pyEncoderV
                     [] name = "JavaScript" -> jsEncoderV
                     [] OTHER -> defaultEncoder

\* The vocabularies that hold every single-byte token.
CompleteVocabs == {n \in VocabNames : \A b \in Byte : GetID(VocabOf(n), <<b>>)[2]}

(***************************************************************************)
(* pkg/compress: the codecs.  A result with an error is [err, data] with   *)
(* err = "nil" on success.                                                 *)
(***************************************************************************)
MethodStore == 0

MethodDEFLATE == 8

MethodUNZLATE == 85

MethodBPELATE == 86

ErrInvalidFormat == "compress: not a valid ZIP file"

ErrCorrupted == "compress: corrupted data"

ErrTooShort == "compress: data too short"

ErrUnsupported == "compress: unsupported compression method"

ok(data) == [err |-> "nil", data |-> data]

fail(err) == [err |-> err, data |-> <<>>]

\* The bytes of one value in encodeVarints: the inner "for v >= 0x80" loop.
RECURSIVE varint(_)
varint(v) == IF v >= 128 THEN <<(v % 128) + 128>> \o varint(v \div 128) ELSE <<v>>

encodeVarints(values) ==
    FoldRange(LAMBDA buf, i : buf \o varint(values[i]), <<>>, 1, Len(values))

\* Every value of 2^28 or more stands for "larger than any token id": the
\* 64-bit value is kept exact below that and saturates there.
varintHuge == Pow2(28)

\* v |= int(b&0x7F) << shift.  The chunks of a value occupy disjoint bits, so
\* the "or" is a sum; a shift of 64 or more moves every bit out of the 64-bit
\* int; a chunk shifted by 28 to 63 bits makes the value too large (or
\* negative) for a token id.
varintAcc(s, b) ==
    IF s.shift >= 64 \/ b % 128 = 0 THEN s.v
    ELSE IF s.shift >= 28 \/ s.v + (b % 128) * Pow2(s.shift) >= varintHuge THEN varintHuge
    ELSE s.v + (b % 128) * Pow2(s.shift)

\* One byte of decodeVarints' loop; v is the accumulated value.
varintStep(s, b, v) ==
    IF b < 128
    THEN [values |-> Append(s.values, v), v |-> 0, shift |-> 0, open |-> FALSE]
    ELSE [values |-> s.values, v |-> v, shift |-> s.shift + 7, open |-> TRUE]

\* "values = append(values, v)" also runs for a last value that the end of
\* the data cut short.
varintEnd(s) == IF s.open THEN Append(s.values, s.v) ELSE s.values

\* decodeVarints: s = [values, v, shift, open]; open is TRUE inside a value.
decodeVarints(data) ==
    varintEnd(FoldRange(LAMBDA s, i : varintStep(s, data[i], varintAcc(s, data[i])),
                        [values |-> <<>>, v |-> 0, shift |-> 0, open |-> FALSE], 1, Len(data)))

\* compress/flate is the standard library's; it is modelled by a block codec
\* with the properties the callers rely on: the output is never empty, its
\* length depends on the redundancy of the input (a stored block costs three
\* bytes more than the input, a run-length block two bytes per run), and
\* inflating it returns the input.
deflateRuns(data) ==
    FoldRange(LAMBDA r, i :
                 IF Len(r) > 0 /\ r[Len(r)][2] = data[i] /\ r[Len(r)][1] < 255
                 THEN [r EXCEPT ![Len(r)] = <<@[1] + 1, @[2]>>]
                 ELSE Append(r, <<1, data[i]>>),
              <<>>, 1, Len(data))

deflateStored(data) == <<0>> \o PutUint16(Len(data)) \o data

deflatePacked(r) ==
    <<1>> \o ([k \in 1..(2 * Len(r)) |-> r[(k + 1) \div 2][((k - 1) % 2) + 1]] \o <<>>)

\* The shorter of the two blocks for data whose runs are r.
deflateBlock(data, r) ==
    IF 1 + 2 * Len(r) < 3 + Len(data) THEN deflatePacked(r) ELSE deflateStored(data)

compressDEFLATE(data) == deflateBlock(data, deflateRuns(data))

decompressDEFLATE(data) ==
    IF Len(data) = 0 THEN fail("unexpected EOF")
    ELSE IF data[1] = 0
         THEN IF Len(data) >= 3 /\ Len(data) = 3 + Uint16(data, 1)
              THEN ok(Slice(data, 3, Len(data))) ELSE fail("unexpected EOF")
    ELSE IF data[1] = 1 /\ Len(data) % 2 = 1
              /\ \A k \in 1..((Len(data) - 1) \div 2) : data[2 * k] > 0
         THEN ok(FoldRange(LAMBDA acc, k : acc \o Repeat(<<data[2 * k + 1]>>, data[2 * k]),
                           <<>>, 1, (Len(data) - 1) \div 2))
    ELSE fail("flate: corrupt input")

\* The tail of compressUNZLATEWith: no tokens, the data as it is.
unzlateOf(data, tokens) ==
    IF Len(tokens) = 0 THEN data ELSE AnsCompress(encodeVarints(tokens))

\* compressUNZLATEWith; compressUNZLATE is this with c.encoder.
compressUNZLATEWith(data, encoder) == unzlateOf(data, Encode(encoder, data))

compressUNZLATE(c, data) == compressUNZLATEWith(data, EncoderOf(c.vocab))

\* The tail of decompressUNZLATE; r is the result of ans.Decompress.
unzlateDecode(c, r) ==
    IF r.err # "nil" THEN fail(r.err)
    ELSE ok(Decode(EncoderOf(c.vocab), decodeVarints(r.data)))

decompressUNZLATE(c, data) == unzlateDecode(c, AnsDecompress(data))

\* The tail of compressBPELATEWith.
bpelateOf(data, tokens) ==
    IF Len(tokens) = 0 THEN compressDEFLATE(data) ELSE compressDEFLATE(encodeVarints(tokens))

\* compressBPELATEWith; compressBPELATE is this with c.encoder.
compressBPELATEWith(data, encoder) == bpelateOf(data, Encode(encoder, data))

compressBPELATE(c, data) == compressBPELATEWith(data, EncoderOf(c.vocab))

ProgLangNone == 0

ProgLangGo == 1

ProgLangPython == 2

ProgLangJavaScript == 3

NatLangEnglish == 1

\* getEncoderForProgLang: the name of the encoder for a ProgLang code.
getEncoderForProgLang(c, lang) ==
    CASE lang = ProgLangGo -> "Go"
      [] lang = ProgLangPython -> "Python"
      [] lang = ProgLangJavaScript -> "JavaScript"
      [] OTHER -> c.vocab

\* getEncoderForLang: the name of the encoder for a detected CodeLang.
getEncoderForLang(c, lang) ==
    CASE lang = "Go" -> "Go"
      [] lang = "Python" -> "Python"
      [] lang = "JavaScript" -> "JavaScript"
      [] OTHER -> c.vocab

\* VocabInfo is [NatLang, ProgLang, DataFmt, Markup].
noVocabInfo == [NatLang |-> 0, ProgLang |-> 0, DataFmt |-> 0, Markup |-> 0]

makeVocabInfoFromDetect(lang) ==
    [NatLang |-> NatLangEnglish,
     ProgLang |-> CASE lang = "Go" -> ProgLangGo
                    [] lang = "Python" -> ProgLangPython
                    [] lang = "JavaScript" -> ProgLangJavaScript
                    [] OTHER -> ProgLangNone,
     DataFmt |-> 0, Markup |-> 0]

\* The tail of decompressBPELATEWithVocab; r is the result of decompressDEFLATE.
bpelateDecode(c, r, vocab) ==
    IF r.err # "nil" THEN fail(r.err)
    ELSE IF Len(r.data) = 0 THEN ok(r.data)
    ELSE ok(Decode(EncoderOf(getEncoderForProgLang(c, vocab.ProgLang)), decodeVarints(r.data)))

decompressBPELATEWithVocab(c, data, vocab) == bpelateDecode(c, decompressDEFLATE(data), vocab)

(***************************************************************************)
(* Time and file modes.  A time.Time is [days, secs]: days since           *)
(* 1970-01-01 and seconds into the day, UTC.  An os.FileMode is            *)
(* [perm, dir, symlink].                                                   *)
(***************************************************************************)
\* time.Time{}: January 1, year 1, 00:00:00 UTC.
zeroTime == [days |-> -719162, secs |-> 0]

IsZero(t) == t = zeroTime

\* Days since 1970-01-01 of a proleptic Gregorian date whose month is in 1..12.
daysFromCivil(y, m, d) ==
    LET yy == IF m <= 2 THEN y - 1 ELSE y
        era == yy \div 400
        yoe == yy - era * 400
        doy == (153 * (IF m > 2 THEN m - 3 ELSE m + 9) + 2) \div 5 + d - 1
        doe == yoe * 365 + yoe \div 4 - yoe \div 100 + doy
    IN era * 146097 + doe - 719468

\* The date of day doy (counted from March 1) of year yoe of a 400-year era.
civilOf(era, yoe, doy, mp) ==
    [year  |-> yoe + era * 400 + (IF mp >= 10 THEN 1 ELSE 0),
     month |-> IF mp < 10 THEN mp + 3 ELSE mp - 9,
     day   |-> doy - (153 * mp + 2) \div 5 + 1]

civilDoy(era, yoe, doy) == civilOf(era, yoe, doy, (5 * doy + 2) \div 153)

civilYoe(era, doe, yoe) == civilDoy(era, yoe, doe - (365 * yoe + yoe \div 4 - yoe \div 100))

civilDoe(era, doe) ==
    civilYoe(era, doe, (doe - doe \div 1460 + doe \div 36524 - doe \div 146096) \div 365)

civilEra(z, era) == civilDoe(era, z - era * 146097)

\* The date [year, month, day] of a day number.
civilFromDays(days) == civilEra(days + 719468, (days + 719468) \div 146097)

\* time.Date(year, month, day, hour, min, sec, 0, time.UTC), which normalises
\* values outside their usual ranges.
Date(year, month, day, hour, min, sec) ==
    LET y == year + (month - 1) \div 12
        m == ((month - 1) % 12) + 1
        s == hour * 3600 + min * 60 + sec
    IN [days |-> daysFromCivil(y, m, 1) + (day - 1) + s \div 86400, secs |-> s % 86400]

\* time.Unix(sec, 0)
UnixTime(sec) == [days |-> sec \div 86400, secs |-> sec % 86400]

\* t.Unix()
Unix(t) == t.days * 86400 + t.secs

\* The test suite's time: 2025-01-15 10:30:00 UTC.
testTime == Date(2025, 1, 15, 10, 30, 0)

\* The year clamped to the range a DOS date holds.
dosYear(year) == IF year < 1980 THEN 1980 ELSE IF year > 2107 THEN 2107 ELSE year

\* The DOS words of the time of day secs on the date c.
dosWords(secs, c) ==
    <<((secs % 60) \div 2) + ((secs \div 60) % 60) * 32 + (secs \div 3600) * 2048,
      c.day + c.month * 32 + (((dosYear(c.year) - 1980) * 512) % 65536)>>

\* timeToDOS: <<dosTime, dosDate>>
timeToDOS(t) == IF IsZero(t) THEN <<0, 0>> ELSE dosWords(t.secs, civilFromDays(t.days))

dosToTime(dosTime, dosDate) ==
    IF dosTime = 0 /\ dosDate = 0 THEN zeroTime
    ELSE Date((dosDate \div 512) + 1980, (dosDate \div 32) % 16, dosDate % 32,
              dosTime \div 2048, (dosTime \div 32) % 64, (dosTime % 32) * 2)

unixModeTypeMask == 61440

unixModeRegular == 32768

unixModeDir == 16384

unixModeSymlink == 40960

Mode(perm) == [perm |-> perm, dir |-> FALSE, symlink |-> FALSE]

\* unixModeToGo keeping only the low 8 bits of the permissions.
unixModeToGoNarrow(unixMode) ==
    LET type == ((unixMode \div 4096) % 16) * 4096
    IN [perm |-> unixMode % 256, dir |-> type = unixModeDir, symlink |-> type = unixModeSymlink]

\* mode.Perm() is mode & 0777; the field perm holds the bits 9..0 of the mode.
goModeToUnix(mode) ==
    (mode.perm % 512) + (IF mode.symlink THEN unixModeSymlink
                 ELSE IF mode.dir THEN unixModeDir
                 ELSE unixModeRegular)

\* unixMode & unixModeTypeMask keeps bits 12..15.
unixModeToGo(unixMode) ==
    LET type == ((unixMode \div 4096) % 16) * 4096
    IN [perm |-> unixMode % 512, dir |-> type = unixModeDir, symlink |-> type = unixModeSymlink]

(***************************************************************************)
(* The ZIP writer.  crc and externalAttrs are passed as their four         *)
(* little-endian bytes.                                                    *)
(***************************************************************************)
sigLocalFile == 67324752

sigCentralDir == 33639248

sigEndCentralD == 101010256

zipVersion == 20

zipVersionUnix == 788

flagUTF8 == 2048

extraExtendedTS == 21589

extraVocabInfo == 21838

makeVocabInfo(info) ==
    PutUint16(extraVocabInfo) \o PutUint16(4)
    \o <<info.NatLang, info.ProgLang, info.DataFmt, info.Markup>>

\* uint32(t.Unix()) as <<low 16 bits, high 16 bits>>: the conversion keeps the
\* low 32 bits of the int64.  512 days are 675 * 65536 seconds.
unixWords(t) ==
    LET rest == (t.days % 512) * 86400 + t.secs
    IN <<rest % 65536, ((t.days \div 512) * 675 + rest \div 65536) % 65536>>

makeExtendedTimestamp(t, local) ==
    IF IsZero(t) THEN <<>>
    ELSE PutUint16(extraExtendedTS) \o PutUint16(5) \o <<1>>
         \o PutUint16(unixWords(t)[1]) \o PutUint16(unixWords(t)[2])

\* hasNonASCII with the byte 0x7F counted as non-ASCII.
hasNonASCIIFrom7F(s) == \E i \in 1..Len(s) : s[i] > 126

hasNonASCII(s) == \E i \in 1..Len(s) : s[i] > 127

\* goModeToUnix(mode) << 16 as four bytes.
externalAttrsOf(mode) == <<0, 0>> \o PutUint16(goModeToUnix(mode))

writeLocalHeader(w, name, method, flags, dosTime, dosDate, crc, compSize, uncompSize, extra) ==
    w \o PutUint32(sigLocalFile) \o PutUint16(zipVersion) \o PutUint16(flags)
      \o PutUint16(method) \o PutUint16(dosTime) \o PutUint16(dosDate) \o crc
      \o PutUint32(compSize) \o PutUint32(uncompSize)
      \o PutUint16(Len(name) % 65536) \o PutUint16(Len(extra) % 65536)
      \o name \o extra

writeCentralDir(w, name, method, flags, dosTime, dosDate, crc, compSize, uncompSize, localOffset, externalAttrs, extra) ==
    w \o PutUint32(sigCentralDir) \o PutUint16(zipVersionUnix) \o PutUint16(zipVersion)
      \o PutUint16(flags) \o PutUint16(method) \o PutUint16(dosTime) \o PutUint16(dosDate)
      \o crc \o PutUint32(compSize) \o PutUint32(uncompSize)
      \o PutUint16(Len(name) % 65536) \o PutUint16(Len(extra) % 65536)
      \o PutUint16(0) \o PutUint16(0) \o PutUint16(0)
      \o externalAttrs \o PutUint32(localOffset)
      \o name \o extra

\* writeEndCentralDir with the entry counts one short.
writeEndCentralDirShort(w, numEntries, centralDirSize, centralDirOffset) ==
    w \o PutUint32(sigEndCentralD) \o PutUint16(0) \o PutUint16(0)
      \o PutUint16((numEntries - 1) % 65536) \o PutUint16((numEntries - 1) % 65536)
      \o PutUint32(centralDirSize) \o PutUint32(centralDirOffset) \o PutUint16(0)

writeEndCentralDir(w, numEntries, centralDirSize, centralDirOffset) ==
    w \o PutUint32(sigEndCentralD) \o PutUint16(0) \o PutUint16(0)
      \o PutUint16(numEntries % 65536) \o PutUint16(numEntries % 65536)
      \o PutUint32(centralDirSize) \o PutUint32(centralDirOffset) \o PutUint16(0)

\* "if hasNonASCII(name) { flags |= flagUTF8 }"
nameFlags(name) == IF hasNonASCII(name) THEN flagUTF8 ELSE 0

\* The vocabulary field, which only BPELATE entries carry.
vocabExtraOf(method, vocabInfo) ==
    IF method = MethodBPELATE THEN makeVocabInfo(vocabInfo) ELSE <<>>

\* The end record after the central directory, which starts at centralDirOffset.
zipClose(withDir, centralDirOffset) ==
    ok(writeEndCentralDir(withDir, 1, Len(withDir) - centralDirOffset, centralDirOffset))

\* The central directory record and the end record after local header and data.
zipDirectory(local, name, method, flags, dos, crc, compSize, uncompSize, externalAttrs, extraCentral) ==
    zipClose(writeCentralDir(local, name, method, flags, dos[1], dos[2], crc, compSize, uncompSize,
                             0, externalAttrs, extraCentral),
             Len(local))

\* The archive of one entry: local header, data, central directory, end record.
zipOne(name, method, flags, dos, crc, compressed, uncompSize, externalAttrs, extraLocal, extraCentral) ==
    zipDirectory(writeLocalHeader(<<>>, name, method, flags, dos[1], dos[2], crc,
                                  Len(compressed), uncompSize, extraLocal) \o compressed,
                 name, method, flags, dos, crc, Len(compressed), uncompSize, externalAttrs, extraCentral)

\* createZIPWithCompressedAndLang: the one-entry archive around a payload.
createZIPWithCompressedAndLang(originalData, compressed, name, modTime, mode, method, vocabInfo) ==
    zipOne(name, method, nameFlags(name), timeToDOS(modTime), ChecksumIEEE(originalData),
           compressed, Len(originalData), externalAttrsOf(mode),
           makeExtendedTimestamp(modTime, TRUE) \o vocabExtraOf(method, vocabInfo),
           makeExtendedTimestamp(modTime, FALSE) \o vocabExtraOf(method, vocabInfo))

createZIPWithCompressed(originalData, compressed, name, modTime, mode, method) ==
    createZIPWithCompressedAndLang(originalData, compressed, name, modTime, mode, method, noVocabInfo)

\* The method switch of createZIP, with c.encoder.
compressAs(c, data, method) ==
    CASE method = MethodUNZLATE -> compressUNZLATE(c, data)
      [] method = MethodBPELATE -> compressBPELATE(c, data)
      [] method = MethodDEFLATE -> compressDEFLATE(data)
      [] OTHER -> data

\* createZIP: compresses with the requested method; no vocabulary field is
\* written, whatever the method.
createZIP(c, data, name, modTime, mode, method) ==
    IF method \notin {MethodUNZLATE, MethodBPELATE, MethodDEFLATE, MethodStore}
    THEN fail(ErrUnsupported)
    ELSE zipOne(name, method, nameFlags(name), timeToDOS(modTime), ChecksumIEEE(data),
                compressAs(c, data, method), Len(data), externalAttrsOf(mode),
                makeExtendedTimestamp(modTime, TRUE), makeExtendedTimestamp(modTime, FALSE))

(***************************************************************************)
(* The ZIP readers.                                                        *)
(***************************************************************************)
HasSuffixSlash(name) == Len(name) > 0 /\ name[Len(name)] = 47

\* time.Unix(int64(mtime), 0) of the uint32 with low word lo and high word hi.
unixTimeOfWords(lo, hi) ==
    LET rest == (hi % 675) * 65536 + lo
    IN [days |-> (hi \div 675) * 512 + rest \div 86400, secs |-> rest % 86400]

\* parseExtendedTimestamp: <<time, ok>>
RECURSIVE parseExtendedTimestamp(_)
parseExtendedTimestamp(extra) ==
    IF Len(extra) < 4 THEN <<zeroTime, FALSE>>
    ELSE LET id == Uint16(extra, 0)
             size == Uint16(extra, 2)
         IN IF Len(extra) < 4 + size THEN <<zeroTime, FALSE>>
            ELSE IF id = extraExtendedTS /\ size >= 5 /\ extra[5] % 2 = 1
                 THEN <<unixTimeOfWords(Uint16(extra, 5), Uint16(extra, 7)), TRUE>>
                 ELSE parseExtendedTimestamp(Slice(extra, 4 + size, Len(extra)))

\* parseVocabInfo: <<info, ok>>
RECURSIVE parseVocabInfo(_)
parseVocabInfo(extra) ==
    IF Len(extra) < 4 THEN <<noVocabInfo, FALSE>>
    ELSE LET id == Uint16(extra, 0)
             size == Uint16(extra, 2)
         IN IF Len(extra) < 4 + size THEN <<noVocabInfo, FALSE>>
            ELSE IF id = extraVocabInfo /\ size >= 4
                 THEN <<[NatLang |-> extra[5], ProgLang |-> extra[6],
                         DataFmt |-> extra[7], Markup |-> extra[8]], TRUE>>
            ELSE IF id = extraVocabInfo /\ size >= 1
                 THEN <<[NatLang |-> NatLangEnglish,
                         ProgLang |-> IF extra[5] \in {1, 2, 3} THEN extra[5] ELSE ProgLangNone,
                         DataFmt |-> 0, Markup |-> 0], TRUE>>
            ELSE parseVocabInfo(Slice(extra, 4 + size, Len(extra)))

\* The largest of the offsets, -1 if there is none.
lastOffset(hits) == IF hits = {} THEN -1 ELSE CHOOSE i \in hits : \A j \in hits : j <= i

\* The backward search for the end-of-central-directory signature:
\* "for i := len(data) - 22; i >= 0 && i > len(data)-65557; i--"; -1 if none.
findEOCD(data) ==
    lastOffset({i \in 0..(Len(data) - 22) :
                   i > Len(data) - 65557 /\ Slice(data, i, i + 4) = PutUint32(sigEndCentralD)})

\* The central directory offset held by the end record at eocdOffset.
centralDirAt(data, eocdOffset) == IF eocdOffset < 0 THEN -1 ELSE Uint32(data, eocdOffset + 16)

findCentralDirectory(data) == centralDirAt(data, findEOCD(data))

\* parseUnixMode: <<mode, ok>>; externalAttrs >> 16 is the upper two bytes.
parseUnixMode(cd) ==
    IF Len(cd) < 46 THEN <<Mode(0), FALSE>>
    ELSE IF Slice(cd, 0, 4) # PutUint32(sigCentralDir) THEN <<Mode(0), FALSE>>
    ELSE IF Uint16(cd, 4) \div 256 # 3 THEN <<Mode(0), FALSE>>
    ELSE IF Uint16(cd, 40) = 0 THEN <<Mode(0), FALSE>>
    ELSE <<unixModeToGo(Uint16(cd, 40)), TRUE>>

\* modTime of a header: the extended timestamp ts = <<time, ok>> if the extra
\* field is not empty and holds one, the DOS time otherwise.
modTimeOf(extraLen, ts, dosTime, dosDate) ==
    IF extraLen > 0 /\ ts[2] THEN ts[1] ELSE dosToTime(dosTime, dosDate)

\* vocab of a header: pv = <<info, ok>> is what parseVocabInfo returned.
vocabOf(extraLen, pv) == IF extraLen > 0 /\ pv[2] THEN pv[1] ELSE noVocabInfo

\* mode of the first file: pm = <<mode, ok>> is what parseUnixMode returned.
modeOf(pm) == IF pm[2] THEN pm[1] ELSE Mode(420)

\* The mode GetFileInfo reads at the central directory offset it found.
centralMode(data, cdOffset) ==
    IF cdOffset >= 0 THEN modeOf(parseUnixMode(Slice(data, cdOffset, Len(data)))) ELSE Mode(420)

\* The FileInfo of the local header at offset 0, extra being its extra field.
localInfo(data, nameLen, extra) ==
    [Name     |-> Slice(data, 30, 30 + nameLen),
     Size     |-> Uint32(data, 22),
     CompSize |-> Uint32(data, 18),
     Method   |-> Uint16(data, 8),
     CRC32    |-> Slice(data, 14, 18),
     ModTime  |-> modTimeOf(Len(extra), parseExtendedTimestamp(extra), Uint16(data, 10), Uint16(data, 12)),
     Mode     |-> centralMode(data, findCentralDirectory(data)),
     Offset   |-> 0,
     Vocab    |-> vocabOf(Len(extra), parseVocabInfo(extra))]

\* The offset of the file data after the local header at offset.
dataOffsetAt(data, offset) == offset + 30 + Uint16(data, offset + 26) + Uint16(data, offset + 28)

\* GetFileInfo: [err, info]
GetFileInfo(data) ==
    IF Len(data) < 30 THEN [err |-> ErrTooShort]
    ELSE IF Slice(data, 0, 4) # PutUint32(sigLocalFile) THEN [err |-> ErrInvalidFormat]
    ELSE IF Len(data) < dataOffsetAt(data, 0) THEN [err |-> ErrCorrupted]
    ELSE [err  |-> "nil",
          info |-> localInfo(data, Uint16(data, 26),
                             Slice(data, 30 + Uint16(data, 26), dataOffsetAt(data, 0)))]

\* "if strings.HasSuffix(name, "/") && mode&os.ModeDir == 0 { mode |= os.ModeDir }"
dirMode(name, mode) == IF HasSuffixSlash(name) /\ ~mode.dir THEN [mode EXCEPT !.dir = TRUE] ELSE mode

\* The mode of a central directory record: Unix attributes if made by Unix.
recordMode(data, offset) ==
    IF Uint16(data, offset + 4) \div 256 = 3 THEN unixModeToGo(Uint16(data, offset + 40)) ELSE Mode(420)

\* The length of the central directory record at offset.
recordLen(data, offset) ==
    46 + Uint16(data, offset + 28) + Uint16(data, offset + 30) + Uint16(data, offset + 32)

\* The FileInfo of the central directory record at offset.
centralInfo(data, offset, name, extra) ==
    [Name     |-> name,
     Size     |-> Uint32(data, offset + 24),
     CompSize |-> Uint32(data, offset + 20),
     Method   |-> Uint16(data, offset + 10),
     CRC32    |-> Slice(data, offset + 16, offset + 20),
     ModTime  |-> modTimeOf(Len(extra), parseExtendedTimestamp(extra),
                            Uint16(data, offset + 12), Uint16(data, offset + 14)),
     Mode     |-> dirMode(name, recordMode(data, offset)),
     Offset   |-> Uint32(data, offset + 42),
     Vocab    |-> vocabOf(Len(extra), parseVocabInfo(extra))]

\* The loop of ListFiles over the central directory: the records from offset
\* on, i of them already read; every "break" ends the list without an error.
RECURSIVE listFrom(_, _, _, _, _)
listFrom(data, i, numEntries, offset, eocdOffset) ==
    IF ~(i < numEntries /\ offset < eocdOffset) THEN <<>>
    ELSE IF offset + 46 > Len(data) THEN <<>>
    ELSE IF Slice(data, offset, offset + 4) # PutUint32(sigCentralDir) THEN <<>>
    ELSE IF offset + recordLen(data, offset) > Len(data) THEN <<>>
    ELSE <<centralInfo(data, offset,
                       Slice(data, offset + 46, offset + 46 + Uint16(data, offset + 28)),
                       Slice(data, offset + 46 + Uint16(data, offset + 28),
                             offset + 46 + Uint16(data, offset + 28) + Uint16(data, offset + 30)))>>
         \o listFrom(data, i + 1, numEntries, offset + recordLen(data, offset), eocdOffset)

\* ListFiles after the end record has been found at eocdOffset.
listAt(data, eocdOffset) ==
    IF eocdOffset < 0 THEN [err |-> ErrInvalidFormat, files |-> <<>>]
    ELSE IF Uint32(data, eocdOffset + 16) >= Len(data) THEN [err |-> ErrCorrupted, files |-> <<>>]
    ELSE [err   |-> "nil",
          files |-> listFrom(data, 0, Uint16(data, eocdOffset + 10),
                             Uint32(data, eocdOffset + 16), eocdOffset)]

\* ListFiles: [err, files]
ListFiles(data) ==
    IF Len(data) < 22 THEN [err |-> ErrTooShort, files |-> <<>>] ELSE listAt(data, findEOCD(data))

\* The method switch shared by Decompress and DecompressFile.
decompressMethod(c, compressed, info) ==
    CASE info.Method = MethodUNZLATE -> decompressUNZLATE(c, compressed)
      [] info.Method = MethodBPELATE -> decompressBPELATEWithVocab(c, compressed, info.Vocab)
      [] info.Method = MethodDEFLATE -> decompressDEFLATE(compressed)
      [] info.Method = MethodStore -> ok(compressed)
      [] OTHER -> fail(ErrUnsupported)

\* Decompress after GetFileInfo has returned g.
decompressFirst(c, data, g) ==
    IF g.err # "nil" THEN fail(g.err)
    ELSE IF Len(data) < dataOffsetAt(data, 0) + g.info.CompSize THEN fail(ErrCorrupted)
    ELSE decompressMethod(c, Slice(data, dataOffsetAt(data, 0), dataOffsetAt(data, 0) + g.info.CompSize),
                          g.info)

\* Decompress: the first file of the archive, read through its local header.
Decompress(c, data) == decompressFirst(c, data, GetFileInfo(data))

\* DecompressFile: the file a FileInfo of ListFiles names.
DecompressFile(c, data, info) ==
    IF info.Offset + 30 > Len(data) THEN fail(ErrCorrupted)
    ELSE IF Slice(data, info.Offset, info.Offset + 4) # PutUint32(sigLocalFile) THEN fail(ErrCorrupted)
    ELSE IF dataOffsetAt(data, info.Offset) + info.CompSize > Len(data) THEN fail(ErrCorrupted)
    ELSE IF HasSuffixSlash(info.Name) \/ (info.Size = 0 /\ info.CompSize = 0) THEN ok(<<>>)
    ELSE decompressMethod(c, Slice(data, dataOffsetAt(data, info.Offset),
                                   dataOffsetAt(data, info.Offset) + info.CompSize), info)

IsValidFormat(data) ==
    IF Len(data) < 30 THEN FALSE ELSE Slice(data, 0, 4) = PutUint32(sigLocalFile)

(***************************************************************************)
(* pkg/detect.  Detect computes entropy, ASCII ratio, repetition and code  *)
(* scores over the first 8192 bytes only and classifies on them; whatever  *)
(* follows the sample does not change the result.  The byte strings of     *)
(* this model are short, so the profile is an input of the operations:     *)
(* Detect(data) is the set of profiles Detect may return.                  *)
(***************************************************************************)
CodeLangs == {"Unknown", "Go", "Python", "JavaScript", "Java"}

Profiles == {[Type |-> t, Language |-> "Unknown"] :
                 t \in {"Text", "Binary", "Repetitive", "LowEntropy", "Random"}}
            \cup {[Type |-> "Code", Language |-> l] : l \in CodeLangs}

Detect(data) ==
    IF Len(data) = 0 THEN {[Type |-> "Random", Language |-> "Unknown"]} ELSE Profiles

(***************************************************************************)
(* Method selection.  A compressor c is [vocab]: the name of the           *)
(* vocabulary it was created with (New).  flate.NewWriter with a valid     *)
(* level and ans.Compress return no error, so the candidates' error        *)
(* branches are not taken.                                                 *)
(***************************************************************************)
\* A selection result is [data, method, vocab]: BPELATE if strictly smaller
\* than DEFLATE.
smallerOf(deflateData, bpelateData, vocab) ==
    IF Len(bpelateData) < Len(deflateData)
    THEN [data |-> bpelateData, method |-> MethodBPELATE, vocab |-> vocab]
    ELSE [data |-> deflateData, method |-> MethodDEFLATE, vocab |-> vocab]

compressTextBest(c, data) ==
    smallerOf(compressDEFLATE(data), compressBPELATE(c, data),
              [noVocabInfo EXCEPT !.NatLang = NatLangEnglish])

compressCodeBest(c, data, lang) ==
    smallerOf(compressDEFLATE(data),
              compressBPELATEWith(data, EncoderOf(getEncoderForLang(c, lang))),
              makeVocabInfoFromDetect(lang))

\* The candidates of compressCode, in the order it lists them.
codeCandidates(data, encoder) ==
    <<[data |-> compressDEFLATE(data), method |-> MethodDEFLATE],
      [data |-> compressUNZLATEWith(data, encoder), method |-> MethodUNZLATE],
      [data |-> compressBPELATEWith(data, encoder), method |-> MethodBPELATE]>>

\* The loop of compressCode over its candidates: the first of the smallest.
bestCandidate(candidates) ==
    FoldRange(LAMBDA best, i : IF Len(candidates[i].data) < Len(best.data) THEN candidates[i] ELSE best,
              candidates[1], 2, Len(candidates))

\* The archive compressCode builds around the candidate it kept: only a
\* BPELATE payload gets the language written next to it.
zipCandidate(data, best, name, modTime, mode, lang) ==
    IF best.method = MethodBPELATE
    THEN createZIPWithCompressedAndLang(data, best.data, name, modTime, mode, best.method,
                                        makeVocabInfoFromDetect(lang))
    ELSE createZIPWithCompressed(data, best.data, name, modTime, mode, best.method)

compressCode(c, data, name, modTime, mode, lang) ==
    zipCandidate(data, bestCandidate(codeCandidates(data, EncoderOf(getEncoderForLang(c, lang)))),
                 name, modTime, mode, lang)

\* The choice of compressText: DEFLATE unless BPELATE is strictly smaller.
zipText(data, deflateData, bpelateData, name, modTime, mode) ==
    IF Len(deflateData) <= Len(bpelateData)
    THEN createZIPWithCompressed(data, deflateData, name, modTime, mode, MethodDEFLATE)
    ELSE createZIPWithCompressed(data, bpelateData, name, modTime, mode, MethodBPELATE)

compressText(c, data, name, modTime, mode) ==
    zipText(data, compressDEFLATE(data), compressBPELATEWith(data, EncoderOf(c.vocab)),
            name, modTime, mode)

\* CompressFileWithMode with the Random case left to the default branch.
CompressFileWithModeNoRandom(c, data, name, modTime, mode, profile) ==
    IF Len(data) = 0 THEN createZIP(c, data, name, modTime, mode, MethodStore)
    ELSE CASE profile.Type = "Text" -> compressText(c, data, name, modTime, mode)
           [] profile.Type = "Code" -> compressCode(c, data, name, modTime, mode, profile.Language)
           [] OTHER -> createZIP(c, data, name, modTime, mode, MethodDEFLATE)

\* CompressFileWithMode, profile being what detect.Detect(data) returned.
CompressFileWithMode(c, data, name, modTime, mode, profile) ==
    IF Len(data) = 0 THEN createZIP(c, data, name, modTime, mode, MethodStore)
    ELSE CASE profile.Type = "Text" -> compressText(c, data, name, modTime, mode)
           [] profile.Type = "Code" -> compressCode(c, data, name, modTime, mode, profile.Language)
           [] profile.Type = "Random" -> createZIP(c, data, name, modTime, mode, MethodStore)
           [] OTHER -> createZIP(c, data, name, modTime, mode, MethodDEFLATE)

CompressFile(c, data, name, modTime, profile) ==
    CompressFileWithMode(c, data, name, modTime, Mode(420), profile)

CompressFileAs(c, data, name, modTime, method) ==
    createZIP(c, data, name, modTime, Mode(420), method)

(***************************************************************************)
(* Archive: a.entries is a sequence of archiveEntry records.               *)
(***************************************************************************)
archiveEntry(name, data, compressed, method, crc, modTime, mode, vocabInfo) ==
    [name |-> name, data |-> data, compressed |-> compressed, method |-> method,
     crc |-> crc, modTime |-> modTime, mode |-> mode, vocabInfo |-> vocabInfo]

\* The switch of Archive.Add: [data, method, vocab] of the entry.
addSelect(c, data, profile) ==
    IF Len(data) = 0 THEN [data |-> data, method |-> MethodStore, vocab |-> noVocabInfo]
    ELSE CASE profile.Type = "Text" -> compressTextBest(c, data)
           [] profile.Type = "Code" -> compressCodeBest(c, data, profile.Language)
           [] profile.Type = "Random" -> [data |-> data, method |-> MethodStore, vocab |-> noVocabInfo]
           [] OTHER -> [data |-> compressDEFLATE(data), method |-> MethodDEFLATE, vocab |-> noVocabInfo]

addEntry(name, data, sel, modTime, mode) ==
    archiveEntry(name, data, sel.data, sel.method, ChecksumIEEE(data), modTime, mode, sel.vocab)

\* Archive.Add: the entry it appends, profile being what detect.Detect(data) returned.
Add(c, data, name, modTime, mode, profile) ==
    addEntry(name, data, addSelect(c, data, profile), modTime, mode)

AddStore(data, name, modTime, mode) ==
    archiveEntry(name, data, data, MethodStore, ChecksumIEEE(data), modTime, mode, noVocabInfo)

AddDirectory(name, modTime, mode) ==
    archiveEntry(IF HasSuffixSlash(name) THEN name ELSE name \o <<47>>, <<>>, <<>>, MethodStore,
                 <<0, 0, 0, 0>>, modTime, [mode EXCEPT !.dir = TRUE], noVocabInfo)

AddSymlink(name, target, modTime, mode) ==
    archiveEntry(name, target, target, MethodStore, ChecksumIEEE(target), modTime,
                 [mode EXCEPT !.symlink = TRUE], noVocabInfo)

\* The two records Bytes writes for an entry; st is [buf, centralDir].
bytesRecords(st, entry, flags, dos, extraLocal, extraCentral, localHeaderOffset) ==
    [buf        |-> writeLocalHeader(st.buf, entry.name, entry.method, flags, dos[1], dos[2], entry.crc,
                                     Len(entry.compressed), Len(entry.data), extraLocal)
                    \o entry.compressed,
     centralDir |-> writeCentralDir(st.centralDir, entry.name, entry.method, flags, dos[1], dos[2],
                                    entry.crc, Len(entry.compressed), Len(entry.data),
                                    localHeaderOffset, externalAttrsOf(entry.mode), extraCentral)]

\* bytesEntry with the offset read after the local header has been written.
bytesEntryLate(st, entry) ==
    bytesRecords(st, entry, nameFlags(entry.name), timeToDOS(entry.modTime),
                 makeExtendedTimestamp(entry.modTime, TRUE) \o vocabExtraOf(entry.method, entry.vocabInfo),
                 makeExtendedTimestamp(entry.modTime, FALSE) \o vocabExtraOf(entry.method, entry.vocabInfo),
                 Len(st.buf) + 30 + Len(entry.name)
                 + Len(makeExtendedTimestamp(entry.modTime, TRUE) \o vocabExtraOf(entry.method, entry.vocabInfo)))

\* One iteration of the loop of Bytes.
bytesEntry(st, entry) ==
    bytesRecords(st, entry, nameFlags(entry.name), timeToDOS(entry.modTime),
                 makeExtendedTimestamp(entry.modTime, TRUE) \o vocabExtraOf(entry.method, entry.vocabInfo),
                 makeExtendedTimestamp(entry.modTime, FALSE) \o vocabExtraOf(entry.method, entry.vocabInfo),
                 Len(st.buf))

\* The central directory and the end record after the loop over n entries.
bytesEnd(st, n) == writeEndCentralDir(st.buf \o st.centralDir, n, Len(st.centralDir), Len(st.buf))

\* Archive.Bytes
Bytes(a) ==
    bytesEnd(FoldRange(LAMBDA x, i : bytesEntry(x, a[i]), [buf |-> <<>>, centralDir |-> <<>>], 1, Len(a)),
             Len(a))

idle == [pc |-> "idle"]

noZip == [pc |-> "none"]

BpeInit == /\ \E v \in VocabNames, text \in SeqsUpTo(BpeAlphabet, MaxLen) :
                 bpe = [pc |-> "encode", vocab |-> v, text |-> text, pos |-> 0,
                        ids |-> <<>>, out |-> <<>>]
           /\ ans = idle /\ comp = idle /\ req = idle /\ entries = <<>> /\ zip = noZip
           /\ files = idle /\ out = idle /\ pc = "bpe" /\ shared = idle /\ procs = idle

\* One iteration of Encode's loop.
BpeEncodeStep ==
    /\ bpe.pc = "encode" /\ bpe.pos < Len(bpe.text)
    /\ \E st \in {encodeStep(EncoderOf(bpe.vocab), bpe.text, bpe.pos)} :
          bpe' = [bpe EXCEPT !.ids = Append(@, st[1]), !.pos = st[2]]
    /\ UNCHANGED <<ans, comp, req, entries, zip, files, out, pc, shared, procs>>

\* Encode returns; the caller decodes its result.
BpeDecode ==
    /\ bpe.pc = "encode" /\ bpe.pos >= Len(bpe.text)
    /\ bpe' = [bpe EXCEPT !.pc = "decoded", !.out = Decode(EncoderOf(bpe.vocab), bpe.ids)]
    /\ UNCHANGED <<ans, comp, req, entries, zip, files, out, pc, shared, procs>>

BpeNext == BpeEncodeStep \/ BpeDecode

SpecBPE == BpeInit /\ [][BpeNext]_vars

\* C4: with a vocabulary holding all 256 single-byte tokens, decoding the ids
\* the greedy encoder produced returns exactly the text that was encoded.
C4_BpeRoundTrip ==
    (bpe.pc = "decoded" /\ bpe.vocab \in CompleteVocabs) => bpe.out = bpe.text

\* A text that a multi-byte token shortened has been encoded and decoded.
C4_Witness == /\ bpe.pc = "decoded" /\ Len(bpe.text) = 3 /\ Len(bpe.ids) < Len(bpe.text)
              /\ bpe.vocab \in CompleteVocabs

(***************************************************************************)
(* The one-file API: CompressFile or CompressFileAs, then Decompress, with *)
(* the archive possibly damaged in between.                                *)
(***************************************************************************)
MidInputs == {Repeat(<<116>>, 8), Repeat(<<116, 104, 101>>, 4)}

\* Inputs long enough for the 520-byte rANS header to pay off.
LongInputs == {Repeat(<<116, 104>>, LongReps)}

\* The bytes "t" and "h": every vocabulary of the model merges some pair of them.
FileAlphabet == {116, 104}

FileInputs == SeqsUpTo(FileAlphabet, MaxLen) \cup MidInputs \cup LongInputs

\* Name and modification time of a request: "a" with the test suite's time,
\* and a non-ASCII name with the zero time.
Stamps == {<<<<97>>, testTime>>, <<<<195, 169>>, zeroTime>>}

Methods == {MethodStore, MethodDEFLATE, MethodUNZLATE, MethodBPELATE}

FileInit == /\ comp \in {[vocab |-> "test"], [vocab |-> "default"]}
            /\ req = idle /\ zip = noZip /\ out = idle
            /\ bpe = idle /\ ans = idle /\ entries = <<>> /\ files = idle /\ pc = "file" /\ shared = idle /\ procs = idle

\* c.CompressFile(data, name, modTime)
FileCompress ==
    /\ pc = "file" /\ req = idle
    /\ \E data \in FileInputs, st \in Stamps :
         \E profile \in Detect(data) :
            \E r \in {CompressFile(comp, data, st[1], st[2], profile)} :
               /\ req' = [pc |-> "done", op |-> "CompressFile", data |-> data, name |-> st[1],
                          modTime |-> st[2], profile |-> profile, err |-> r.err]
               /\ zip' = [pc |-> "built", data |-> r.data, damaged |-> FALSE]
    /\ UNCHANGED <<bpe, ans, comp, entries, files, out, pc, shared, procs>>

\* c.CompressFileAs(data, name, modTime, method); 99 is a method the format
\* does not define.
FileCompressAs ==
    /\ pc = "file" /\ req = idle
    /\ \E data \in FileInputs, st \in Stamps, method \in Methods \cup {99} :
         \E r \in {CompressFileAs(comp, data, st[1], st[2], method)} :
            /\ req' = [pc |-> "done", op |-> "CompressFileAs", data |-> data, name |-> st[1],
                       modTime |-> st[2], method |-> method, err |-> r.err]
            /\ zip' = IF r.err = "nil" THEN [pc |-> "built", data |-> r.data, damaged |-> FALSE]
                      ELSE noZip
    /\ UNCHANGED <<bpe, ans, comp, entries, files, out, pc, shared, procs>>

\* The archive is damaged in storage or transit: one bit of the first payload
\* byte, or of the CRC field of the local header, flips.
FileDamage ==
    /\ pc = "file" /\ zip.pc = "built" /\ ~zip.damaged /\ out = idle
    /\ \E at \in {14, 30 + Uint16(zip.data, 26) + Uint16(zip.data, 28)} :
         /\ at = 14 \/ Uint32(zip.data, 18) > 0
         /\ zip' = [zip EXCEPT !.damaged = TRUE,
                               !.data = [@ EXCEPT ![at + 1] = IF @ % 2 = 0 THEN @ + 1 ELSE @ - 1]]
    /\ UNCHANGED <<bpe, ans, comp, req, entries, files, out, pc, shared, procs>>

\* c.Decompress(zip)
FileDecompress ==
    /\ pc = "file" /\ zip.pc = "built" /\ out = idle
    /\ \E r \in {Decompress(comp, zip.data)} :
          out' = [pc |-> "done", err |-> r.err, data |-> r.data]
    /\ UNCHANGED <<bpe, ans, comp, req, entries, zip, files, pc, shared, procs>>

FileNext == FileCompress \/ FileCompressAs \/ FileDamage \/ FileDecompress

SpecFile == FileInit /\ [][FileNext]_vars

\* The compressed size recorded in the local header of the built archive.
payloadSize == GetFileInfo(zip.data).info.CompSize

C2_MethodRoundTrip ==
    (pc = "file" /\ req.pc = "done" /\ req.op = "CompressFileAs" /\ req.method \in Methods
     /\ ~zip.damaged /\ out.pc = "done")
        => (out.err = "nil" /\ out.data = req.data)

\* C6: extraction compares the CRC-32 of the decoded bytes with the CRC of the
\* entry's header; when they differ it returns the Corrupted error and no
\* data, so whatever it returns without an error has the header's CRC.
C6_CrcChecked ==
    (pc = "file" /\ out.pc = "done" /\ ChecksumIEEE(out.data) # GetFileInfo(zip.data).info.CRC32)
        => (out.err = ErrCorrupted /\ out.data = <<>>)

(***************************************************************************)
(* The archive builder: Add, AddStore, AddDirectory and AddSymlink calls,  *)
(* then Bytes, ListFiles on its result and DecompressFile of a listed      *)
(* file.  req is the sequence of the calls made, entries is a.entries.     *)
(***************************************************************************)
\* The Add calls: data, the profile detected for it, name and time.
addCall(data, type, lang, st) ==
    [data |-> data, profile |-> [Type |-> type, Language |-> lang], name |-> st[1], modTime |-> st[2]]

AddCalls ==
    {x \in {addCall(<<>>, "Random", "Unknown", <<<<97>>, testTime>>),
            addCall(<<116, 104>>, "Text", "Unknown", <<<<195, 169>>, zeroTime>>),
            addCall(Repeat(<<116>>, 8), "Random", "Unknown", <<<<97>>, testTime>>),
            addCall(Repeat(<<116>>, 8), "Code", "Python", <<<<195, 169>>, zeroTime>>)}
            \cup {addCall(d, "Code", "Go", <<<<97>>, testTime>>) : d \in LongInputs}
            \cup {addCall(d, "Random", "Unknown", <<<<97>>, testTime>>) : d \in LongInputs}
            \cup {addCall(Repeat(<<116>>, 8), t, "Unknown", <<<<97>>, testTime>>) :
                     t \in {"Binary", "Repetitive", "LowEntropy"}} :
        x.profile \in Detect(x.data) /\ <<x.name, x.modTime>> \in Stamps}

\* The archive holds at most one long input.
MaxArchiveBytes == 2 * LongReps + 8 * MaxEntries

archiveBytes == Sum([i \in 1..Len(entries) |-> Len(entries[i].data)] \o <<>>)

ArchInit == /\ comp = [vocab |-> "default"]
            /\ req = <<>> /\ entries = <<>> /\ zip = noZip /\ files = idle /\ out = idle
            /\ bpe = idle /\ ans = idle /\ pc = "archive" /\ shared = idle /\ procs = idle

\* a.Add(data, name, modTime, 0644)
ArchAdd ==
    /\ pc = "archive" /\ zip = noZip /\ Len(entries) < MaxEntries
    /\ \E x \in AddCalls :
         /\ archiveBytes + Len(x.data) <= MaxArchiveBytes
         /\ entries' = Append(entries, Add(comp, x.data, x.name, x.modTime, Mode(420), x.profile))
         /\ req' = Append(req, [op |-> "Add", name |-> x.name, data |-> x.data, profile |-> x.profile])
    /\ UNCHANGED <<bpe, ans, comp, zip, files, out, pc, shared, procs>>

\* a.AddStore("ht", name, time.Time{}, 0600), the name being "s" or "~".
ArchAddStore ==
    /\ pc = "archive" /\ zip = noZip /\ Len(entries) < MaxEntries
    /\ \E name \in {<<115>>, <<126>>} :
         /\ entries' = Append(entries, AddStore(<<104, 116>>, name, zeroTime, Mode(384)))
         /\ req' = Append(req, [op |-> "AddStore", name |-> name, data |-> <<104, 116>>])
    /\ UNCHANGED <<bpe, ans, comp, zip, files, out, pc, shared, procs>>

\* a.AddDirectory(name, modTime, 0755), the name with or without its slash.
ArchAddDirectory ==
    /\ pc = "archive" /\ zip = noZip /\ Len(entries) < MaxEntries
    /\ \E name \in {<<100>>, <<100, 47>>} :
         /\ entries' = Append(entries, AddDirectory(name, testTime, Mode(493)))
         /\ req' = Append(req, [op |-> "AddDirectory", name |-> name, data |-> <<>>])
    /\ UNCHANGED <<bpe, ans, comp, zip, files, out, pc, shared, procs>>

\* a.AddSymlink(name, "a", modTime, 0777), the name being "l" or "l" followed
\* by the byte 0x7F.
ArchAddSymlink ==
    /\ pc = "archive" /\ zip = noZip /\ Len(entries) < MaxEntries
    /\ \E name \in {<<108>>, <<108, 127>>} :
         /\ entries' = Append(entries, AddSymlink(name, <<97>>, testTime, Mode(511)))
         /\ req' = Append(req, [op |-> "AddSymlink", name |-> name, data |-> <<97>>])
    /\ UNCHANGED <<bpe, ans, comp, zip, files, out, pc, shared, procs>>

\* a.Bytes(), after any number of calls, none included.
ArchBytes ==
    /\ pc = "archive" /\ zip = noZip
    /\ zip' = [pc |-> "built", data |-> Bytes(entries), damaged |-> FALSE]
    /\ UNCHANGED <<bpe, ans, comp, req, entries, files, out, pc, shared, procs>>

\* ListFiles(zip)
ArchList ==
    /\ pc = "archive" /\ zip.pc = "built" /\ files = idle
    /\ \E r \in {ListFiles(zip.data)} :
          files' = [pc |-> "listed", err |-> r.err, files |-> r.files]
    /\ UNCHANGED <<bpe, ans, comp, req, entries, zip, out, pc, shared, procs>>

\* c.DecompressFile(zip, info) for one of the listed files.
ArchExtract ==
    /\ pc = "archive" /\ files.pc = "listed" /\ out = idle
    /\ \E i \in 1..Len(files.files) :
          \E r \in {DecompressFile(comp, zip.data, files.files[i])} :
             out' = [pc |-> "done", i |-> i, err |-> r.err, data |-> r.data]
    /\ UNCHANGED <<bpe, ans, comp, req, entries, zip, files, pc, shared, procs>>

ArchNext == \/ ArchAdd \/ ArchAddStore \/ ArchAddDirectory \/ ArchAddSymlink
            \/ ArchBytes \/ ArchList \/ ArchExtract

SpecArchive == ArchInit /\ [][ArchNext]_vars

\* The name of the entry a call appends: AddDirectory ends it with a slash.
entryNameOf(call) ==
    IF call.op = "AddDirectory" /\ ~HasSuffixSlash(call.name) THEN call.name \o <<47>> ELSE call.name

RECURSIVE localStart(_, _)
localStart(data, i) ==
    IF i = 1 THEN 0
    ELSE dataOffsetAt(data, localStart(data, i - 1)) + Uint32(data, localStart(data, i - 1) + 18)

\* The position of the i-th central directory record, the first being at first.
RECURSIVE centralStart(_, _, _)
centralStart(data, first, i) ==
    IF i = 1 THEN first
    ELSE centralStart(data, first, i - 1) + recordLen(data, centralStart(data, first, i - 1))

\* The local header of entry e is at position at, the central record
\* at position rec names that position.
offsetPointsAt(data, e, at, rec) ==
    /\ Uint32(data, rec + 42) = at
    /\ Slice(data, rec, rec + 4) = PutUint32(sigCentralDir)
    /\ Slice(data, at, at + 4) = PutUint32(sigLocalFile)
    /\ Slice(data, at + 30, at + 30 + Uint16(data, at + 26)) = e.name

\* C8: in the archive Bytes emits, the central directory offset of the end
\* record is the position of the first central directory record (the byte
\* after the last entry's data), and the local header offset of each central
\* record is the position at which that entry's local header was written,
\* where the signature 0x04034b50 stands.
C8_OffsetsPointAtHeaders ==
    (pc = "archive" /\ zip.pc = "built")
        => /\ Uint32(zip.data, Len(zip.data) - 6) = localStart(zip.data, Len(entries) + 1)
           /\ Uint32(zip.data, Len(zip.data) - 6) + Uint32(zip.data, Len(zip.data) - 10)
                 = Len(zip.data) - 22
           /\ \A i \in 1..Len(entries) :
                 offsetPointsAt(zip.data, entries[i], localStart(zip.data, i),
                                centralStart(zip.data, Uint32(zip.data, Len(zip.data) - 6), i))

\* An archive of two entries has been emitted, the second of them after data.
C8_Witness ==
    /\ pc = "archive" /\ zip.pc = "built" /\ Len(entries) = 2
    /\ Len(entries[1].compressed) > 0 /\ localStart(zip.data, 2) > 30

\* C9: IsValidFormat is true of what Bytes emits, whatever the number of
\* entries of the archive.
C9_EmittedIsValid == (pc = "archive" /\ zip.pc = "built") => IsValidFormat(zip.data)

\* C3, for one input: the payload is no larger than Deflate's output for it.
notWorseThanDeflate(size, data) == size <= Len(compressDEFLATE(data))

\* C3: for every input and every detected profile, the payload of the entry
\* that CompressFile and Archive.Add emit is no larger than the payload that
\* Deflate alone produces for the input.
C3_NeverWorseThanDeflate ==
    /\ (pc = "file" /\ req.pc = "done" /\ req.op = "CompressFile" /\ ~zip.damaged)
          => notWorseThanDeflate(payloadSize, req.data)
    /\ pc = "archive"
          => \A i \in 1..Len(entries) :
                req[i].op = "Add" => notWorseThanDeflate(Len(entries[i].compressed), req[i].data)

\* The choice C10 describes among the candidates: none is smaller than the
\* payload emitted, and DEFLATE is emitted when it is among the smallest.
smallestOf(size, method, candidates) ==
    /\ \A i \in 1..Len(candidates) : size <= Len(candidates[i].data)
    /\ (\A i \in 1..Len(candidates) : Len(candidates[1].data) <= Len(candidates[i].data))
          => method = MethodDEFLATE

AnsAlphabet == {0, 116, 255}

MidReps == 2

\* Inputs long and varied enough for the encoder to renormalise.
AnsMidInputs == {Repeat(<<1, 2, 3, 4, 5, 6, 7, 8>>, MidReps),
              Repeat(<<9, 9, 9, 9, 9, 200>>, MidReps + 1),
              Repeat(<<0, 255, 0, 7>>, MidReps + 2) \o <<3>>,
              Repeat(<<116>>, 4 * MidReps)}

AnsInputs == SeqsUpTo(AnsAlphabet, MaxLen) \cup AnsMidInputs

noTable == [freq |-> <<>>, cum |-> <<>>]

AnsInit == /\ \E data \in AnsInputs :
                 ans = [pc |-> "start", data |-> data, tab |-> noTable, i |-> 0,
                        enc |-> NewAnsEncoder, comp |-> <<>>, res |-> idle]
           /\ bpe = idle /\ comp = idle /\ req = idle /\ entries = <<>> /\ zip = noZip
           /\ files = idle /\ out = idle /\ pc = "ans" /\ shared = idle /\ procs = idle

\* Compress up to its loop: the empty input returns at once, otherwise the
\* table is built and the encoder created.
AnsBegin ==
    /\ ans.pc = "start"
    /\ IF Len(ans.data) = 0
       THEN ans' = [ans EXCEPT !.pc = "compressed", !.comp = <<0, 0, 0, 0>>]
       ELSE ans' = [ans EXCEPT !.pc = "encode", !.tab = BuildTable(countBytes(ans.data)),
                               !.i = Len(ans.data), !.enc = NewAnsEncoder]
    /\ UNCHANGED <<bpe, comp, req, entries, zip, files, out, pc, shared, procs>>

\* One iteration of "for i := len(data) - 1; i >= 0; i--".
AnsEncodeStep ==
    /\ ans.pc = "encode" /\ ans.i > 0
    /\ ans' = [ans EXCEPT !.enc = AnsEncode(@, ans.data[ans.i], ans.tab), !.i = @ - 1]
    /\ UNCHANGED <<bpe, comp, req, entries, zip, files, out, pc, shared, procs>>

\* Finish and the assembly of the output.
AnsFinish ==
    /\ ans.pc = "encode" /\ ans.i = 0
    /\ ans' = [ans EXCEPT !.pc = "compressed",
                          !.comp = ansFrame(Len(ans.data), ans.tab, Finish(ans.enc))]
    /\ UNCHANGED <<bpe, comp, req, entries, zip, files, out, pc, shared, procs>>

\* Decompress applied to what Compress returned.
AnsDecompressStep ==
    /\ ans.pc = "compressed"
    /\ ans' = [ans EXCEPT !.pc = "done", !.res = AnsDecompress(ans.comp)]
    /\ UNCHANGED <<bpe, comp, req, entries, zip, files, out, pc, shared, procs>>

AnsNext == AnsBegin \/ AnsEncodeStep \/ AnsFinish \/ AnsDecompressStep

SpecANS == AnsInit /\ [][AnsNext]_vars

\* C5: for every byte sequence, the empty one included, ans.Decompress of
\* ans.Compress of it succeeds and returns the sequence.
C5_AnsRoundTrip ==
    ans.pc = "done" => (ans.res.err = "nil" /\ ans.res.data = ans.data)

\* Round trip of an input for which the encoder emitted renormalisation
\* bytes (the output is longer than header plus final state).
C5_Witness == /\ ans.pc = "done" /\ Len(ans.comp) > 4 + 512 + 4 + 1
              /\ ans.res.err = "nil" /\ ans.res.data = ans.data

\* The step-wise encoder and the operator AnsCompress agree.
AnsStepwiseAgrees == ans.pc = "compressed" => ans.comp = AnsCompress(ans.data)

(***************************************************************************)
(* The one-file API and the archive builder side by side: the automatic    *)
(* selection is made by CompressFile and by Archive.Add.                   *)
(***************************************************************************)
SelectNext == FileNext \/ ArchNext

SpecSelect == (FileInit \/ ArchInit) /\ [][SelectNext]_vars

\* The payload that follows the local header at position at.
payloadAt(data, at) == Slice(data, dataOffsetAt(data, at), dataOffsetAt(data, at) + Uint32(data, at + 18))

\* C11, for one input: what the selection must emit for it.
selectsByClass(data, profile, method, payload) ==
    /\ (Len(data) = 0 \/ (profile.Type = "Random" /\ Len(data) >= 256))
          => (method = MethodStore /\ payload = data)
    /\ (Len(data) > 0 /\ profile.Type \in {"Binary", "Repetitive", "LowEntropy"})
          => method = MethodDEFLATE

\* C11: CompressFile and Archive.Add emit method 0 with the input as stored
\* bytes for the empty input and for every input of at least 256 bytes that
\* is classified as Random, and method 8 for every input classified as
\* Binary, Repetitive or LowEntropy.
C11_StoreAndDeflateClasses ==
    /\ (pc = "file" /\ req.pc = "done" /\ req.op = "CompressFile" /\ ~zip.damaged)
          => /\ req.err = "nil"
             /\ selectsByClass(req.data, req.profile, Uint16(zip.data, 8), payloadAt(zip.data, 0))
    /\ pc = "archive"
          => \A i \in 1..Len(entries) :
                req[i].op = "Add"
                   => /\ selectsByClass(req[i].data, req[i].profile, entries[i].method, entries[i].compressed)
                      /\ zip.pc = "built"
                            => selectsByClass(req[i].data, req[i].profile,
                                              Uint16(zip.data, localStart(zip.data, i) + 8),
                                              payloadAt(zip.data, localStart(zip.data, i)))

\* An archive has been emitted whose first entry is a long input classified
\* as Random and whose second is an input classified as Binary.
C11_Witness ==
    /\ pc = "archive" /\ zip.pc = "built" /\ Len(req) = 2
    /\ req[1].op = "Add" /\ req[1].profile.Type = "Random" /\ Len(req[1].data) >= 256
    /\ req[2].op = "Add" /\ req[2].profile.Type = "Binary"
    /\ Uint16(zip.data, 8) = MethodStore

\* The extra field of the local header at position at, and of the central
\* directory record at position rec.
localExtraAt(data, at) ==
    Slice(data, at + 30 + Uint16(data, at + 26), at + 30 + Uint16(data, at + 26) + Uint16(data, at + 28))

centralExtraAt(data, rec) ==
    Slice(data, rec + 46 + Uint16(data, rec + 28), rec + 46 + Uint16(data, rec + 28) + Uint16(data, rec + 30))

\* C12, for one extra field: a vocabulary record for English and progLang
\* with methods 85 and 86, none with methods 0 and 8.
vocabRecordFits(extra, method, progLang) ==
    /\ method \in {MethodUNZLATE, MethodBPELATE}
          => /\ parseVocabInfo(extra)[2]
             /\ parseVocabInfo(extra)[1].NatLang = NatLangEnglish
             /\ parseVocabInfo(extra)[1].ProgLang = progLang
    /\ method \in {MethodStore, MethodDEFLATE} => ~parseVocabInfo(extra)[2]

\* The ProgLang code of the vocabulary that encodes a request: the detected
\* language's for code, None for the compressor's own vocabulary.
progLangOf(r) ==
    IF r.op = "CompressFile" /\ r.profile.Type = "Code"
    THEN makeVocabInfoFromDetect(r.profile.Language).ProgLang
    ELSE ProgLangNone

\* C12: every entry emitted with method 85 or 86 carries, in its local and in
\* its central extra field, a 0x554E record whose natural language is English
\* and whose programming language is that of the vocabulary that encoded the
\* entry (None for the text vocabulary); entries with method 0 or 8 carry no
\* 0x554E record.
C12_VocabRecordWritten ==
    (pc = "file" /\ req.pc = "done" /\ zip.pc = "built" /\ ~zip.damaged)
        => /\ vocabRecordFits(localExtraAt(zip.data, 0), Uint16(zip.data, 8), progLangOf(req))
           /\ vocabRecordFits(centralExtraAt(zip.data, Uint32(zip.data, Len(zip.data) - 6)),
                              Uint16(zip.data, 8), progLangOf(req))

(***************************************************************************)
(* The readers on archives that come from elsewhere: an archive written    *)
(* with a vocabulary of another language, an entry with a method code the  *)
(* format does not define, and an archive whose central directory was      *)
(* damaged.  req tells which; ListFiles, Decompress and DecompressFile     *)
(* then run on it.                                                         *)
(***************************************************************************)
ProgLangJava == 4

ProgLangRust == 9

\* The languages the Compressor holds an encoder for (getEncoderForProgLang).
HeldProgLangs == {ProgLangNone, ProgLangGo, ProgLangPython, ProgLangJavaScript}

\* A one-entry archive as a writer of the format lays it out: the 0x554E
\* record follows the timestamp in both extra fields.
foreignZIP(data, compressed, name, modTime, method, vocabInfo) ==
    zipOne(name, method, nameFlags(name), timeToDOS(modTime), ChecksumIEEE(data),
           compressed, Len(data), externalAttrsOf(Mode(420)),
           makeExtendedTimestamp(modTime, TRUE) \o makeVocabInfo(vocabInfo),
           makeExtendedTimestamp(modTime, FALSE) \o makeVocabInfo(vocabInfo))

\* The payload such a writer produces with its own vocabulary.
foreignPayload(data, method, encoder) ==
    IF method = MethodUNZLATE THEN compressUNZLATEWith(data, encoder)
    ELSE compressBPELATEWith(data, encoder)

\* A one-entry archive whose method field holds any code; the data is stored.
methodZIP(data, name, modTime, method) ==
    zipOne(name, method, nameFlags(name), timeToDOS(modTime), ChecksumIEEE(data),
           data, Len(data), externalAttrsOf(Mode(420)),
           makeExtendedTimestamp(modTime, TRUE), makeExtendedTimestamp(modTime, FALSE))

\* The archive of two entries that gets damaged.
twoEntries ==
    Bytes(<<AddStore(<<104, 116>>, <<115>>, zeroTime, Mode(384)),
            AddSymlink(<<108>>, <<97>>, testTime, Mode(511))>>)

\* The signature of the central directory record at rec no longer matches.
badSignature(data, rec) == [data EXCEPT ![rec + 1] = 81]

\* The central directory record at rec is cut after keep bytes; the end
\* record follows at once and declares what it declared.
cutRecord(data, rec, keep) == Slice(data, 0, rec + keep) \o Slice(data, Len(data) - 22, Len(data))

\* The damaged archives: record k unreadable, k - 1 records before it intact.
damagedZIP(data, k, how) ==
    IF how = "signature"
    THEN badSignature(data, centralStart(data, Uint32(data, Len(data) - 6), k))
    ELSE cutRecord(data, centralStart(data, Uint32(data, Len(data) - 6), k), 10)

ReaderInit == /\ comp = [vocab |-> "default"]
              /\ req = idle /\ zip = noZip /\ files = idle /\ out = idle
              /\ bpe = idle /\ ans = idle /\ entries = <<>> /\ pc = "reader" /\ shared = idle /\ procs = idle

\* An archive arrives whose entry was encoded with the vocabulary of progLang.
ReaderForeign ==
    /\ pc = "reader" /\ req = idle
    /\ \E data \in {<<116, 104>>, <<116, 104, 101>>}, method \in {MethodUNZLATE, MethodBPELATE},
          progLang \in {ProgLangNone, ProgLangGo, ProgLangJava, ProgLangRust}, st \in Stamps :
         /\ req' = [pc |-> "done", kind |-> "foreign", data |-> data, name |-> st[1],
                    method |-> method, progLang |-> progLang]
         /\ zip' = [pc |-> "built", damaged |-> FALSE,
                    data |-> foreignZIP(data,
                                        foreignPayload(data, method,
                                                       EncoderOf(IF progLang = ProgLangGo THEN "Go"
                                                                 ELSE IF progLang = ProgLangNone THEN "default"
                                                                 ELSE "test")),
                                        st[1], st[2], method,
                                        [noVocabInfo EXCEPT !.NatLang = NatLangEnglish,
                                                            !.ProgLang = progLang]).data]
    /\ UNCHANGED <<bpe, ans, comp, entries, files, out, pc, shared, procs>>

\* An archive arrives whose entry has a method code outside {0, 8, 85, 86}.
ReaderMethod ==
    /\ pc = "reader" /\ req = idle
    /\ \E data \in {<<>>, <<116, 104>>}, name \in {<<97>>, <<100, 47>>}, method \in {1, 12, 99} :
         /\ req' = [pc |-> "done", kind |-> "method", data |-> data, name |-> name,
                    method |-> method]
         /\ zip' = [pc |-> "built", damaged |-> FALSE,
                    data |-> methodZIP(data, name, testTime, method).data]
    /\ UNCHANGED <<bpe, ans, comp, entries, files, out, pc, shared, procs>>

\* An archive of two entries arrives with its k-th central record damaged.
ReaderDamaged ==
    /\ pc = "reader" /\ req = idle
    /\ \E k \in 1..2, how \in {"signature", "cut"} :
         /\ req' = [pc |-> "done", kind |-> "damaged", k |-> k, how |-> how]
         /\ zip' = [pc |-> "built", damaged |-> TRUE, data |-> damagedZIP(twoEntries, k, how)]
    /\ UNCHANGED <<bpe, ans, comp, entries, files, out, pc, shared, procs>>

\* ListFiles(zip)
ReaderList ==
    /\ pc = "reader" /\ zip.pc = "built" /\ files = idle
    /\ \E r \in {ListFiles(zip.data)} :
          files' = [pc |-> "listed", err |-> r.err, files |-> r.files]
    /\ UNCHANGED <<bpe, ans, comp, req, entries, zip, out, pc, shared, procs>>

\* c.Decompress(zip)
ReaderDecompress ==
    /\ pc = "reader" /\ zip.pc = "built" /\ out = idle
    /\ \E r \in {Decompress(comp, zip.data)} :
          out' = [pc |-> "done", op |-> "Decompress", err |-> r.err, data |-> r.data]
    /\ UNCHANGED <<bpe, ans, comp, req, entries, zip, files, pc, shared, procs>>

\* c.DecompressFile(zip, info) for one of the listed files.
ReaderExtract ==
    /\ pc = "reader" /\ files.pc = "listed" /\ out = idle
    /\ \E i \in 1..Len(files.files) :
          \E r \in {DecompressFile(comp, zip.data, files.files[i])} :
             out' = [pc |-> "done", op |-> "DecompressFile", err |-> r.err, data |-> r.data]
    /\ UNCHANGED <<bpe, ans, comp, req, entries, zip, files, pc, shared, procs>>

ReaderNext == \/ ReaderForeign \/ ReaderMethod \/ ReaderDamaged
              \/ ReaderList \/ ReaderDecompress \/ ReaderExtract

SpecReader == ReaderInit /\ [][ReaderNext]_vars

\* C13: extracting a Bpelate or Unzlate entry whose vocab-info names a
\* programming language the decoder holds no vocabulary for fails with the
\* Unsupported error and returns no data, while ListFiles on the same archive
\* succeeds and lists the entry.
C13_UnknownVocabularyRefused ==
    (pc = "reader" /\ req.pc = "done" /\ req.kind = "foreign" /\ req.progLang \notin HeldProgLangs)
        => /\ out.pc = "done" => (out.err = ErrUnsupported /\ out.data = <<>>)
           /\ files.pc = "listed"
                 => (files.err = "nil" /\ Len(files.files) = 1 /\ files.files[1].Name = req.name)

\* C14: Decompress and DecompressFile of an entry whose method code is not
\* 0, 8, 85 or 86 fail with the Unsupported error and return no data,
\* whatever the entry's name and recorded sizes.
C14_UnknownMethodRefused ==
    (pc = "reader" /\ req.pc = "done" /\ req.kind = "method" /\ out.pc = "done")
        => (out.err = ErrUnsupported /\ out.data = <<>>)

\* C15: when ListFiles meets a central directory record that is cut short or
\* does not start with the central directory signature before it has read
\* the number of entries the end record declares, it returns an error and
\* no entries, never a partial list with a nil error.
C15_BadRecordIsAnError ==
    (pc = "reader" /\ req.pc = "done" /\ req.kind = "damaged" /\ files.pc = "listed")
        => (files.err # "nil" /\ files.files = <<>>)

(***************************************************************************)
(* ans.Decompress on frames that are not what ans.Compress wrote: a frame  *)
(* cut short, and a frame whose frequency table was changed.               *)
(***************************************************************************)
\* The frames ans.Compress writes for two inputs.
validFrames == {AnsCompress(<<116, 116, 104>>), AnsCompress(Repeat(<<1, 2, 3, 4, 5, 6, 7, 8>>, MidReps))}

\* The lengths a frame is cut to: inside the length, inside the frequency
\* table, and inside the 4 bytes of the decoder's state.
cutLengths == {n \in 0..519 : n < 8 \/ n % 16 = 0 \/ n >= 512}

\* The frequency of symbol sym in the frame's table becomes freq.
withFrequency(frame, sym, freq) ==
    Slice(frame, 0, 4 + 2 * sym) \o PutUint16(freq) \o Slice(frame, 4 + 2 * sym + 2, Len(frame))

\* The sum of the frequency table a frame carries.
frameTotal(frame) == Sum([i \in 1..256 |-> Uint16(frame, 4 + (i - 1) * 2)] \o <<>>)

invalidFrames ==
    {[kind |-> "cut", frame |-> Slice(f, 0, n)] : f \in validFrames, n \in cutLengths}
    \cup {[kind |-> "table", frame |-> withFrequency(f, sym, freq)] :
             f \in validFrames, sym \in {0, 1, 116}, freq \in {0, 1, 5000, 65535}}

AnsInvalidInit ==
    /\ \E x \in invalidFrames :
          ans = [pc |-> "received", kind |-> x.kind, comp |-> x.frame, res |-> idle]
    /\ bpe = idle /\ comp = idle /\ req = idle /\ entries = <<>> /\ zip = noZip
    /\ files = idle /\ out = idle /\ pc = "ans" /\ shared = idle /\ procs = idle

\* Decompress applied to the frame received.
AnsInvalidDecompress ==
    /\ ans.pc = "received"
    /\ ans' = [ans EXCEPT !.pc = "done", !.res = AnsDecompress(ans.comp)]
    /\ UNCHANGED <<bpe, comp, req, entries, zip, files, out, pc, shared, procs>>

SpecAnsInvalid == AnsInvalidInit /\ [][AnsInvalidDecompress]_vars

\* C16: ans.Decompress returns an error and no output bytes for every input
\* whose header is cut short, whose frequency table is corrupted (does not
\* sum to 16384), or which is too short to hold the 4-byte state.
C16_InvalidFrameRefused ==
    (ans.pc = "done"
     /\ (Len(ans.comp) < 4 + 256 * 2 + 4 \/ frameTotal(ans.comp) # ProbScale))
        => (ans.res.err # "nil" /\ ans.res.data = <<>>)

\* The flags fields of the local header at position at and of the central
\* record at position rec hold bit 11 alone if the name has a byte above
\* limit, and 0 otherwise.
flagsFit(data, at, rec, name, limit) ==
    /\ Uint16(data, at + 6) = (IF \E i \in 1..Len(name) : name[i] > limit THEN 2048 ELSE 0)
    /\ Uint16(data, rec + 8) = Uint16(data, at + 6)

\* The flags of every emitted entry fit its name, bytes above limit being
\* the ones that set bit 11.
flagsFitEverywhere(limit) ==
    /\ (pc = "file" /\ req.pc = "done" /\ zip.pc = "built" /\ ~zip.damaged)
          => flagsFit(zip.data, 0, Uint32(zip.data, Len(zip.data) - 6), req.name, limit)
    /\ (pc = "archive" /\ zip.pc = "built")
          => \A i \in 1..Len(entries) :
                flagsFit(zip.data, localStart(zip.data, i),
                         centralStart(zip.data, Uint32(zip.data, Len(zip.data) - 6), i),
                         entries[i].name, limit)

\* C17 as stated: bit 11 of the general-purpose flags in an entry's local and
\* central headers is set if and only if the entry name contains a byte
\* greater than 0x7E; otherwise the flags field is 0.
C17_Utf8FlagAbove7E == flagsFitEverywhere(126)

\* C17, amended: bit 11 of the general-purpose flags in an entry's local and
\* central headers is set if and only if the entry name contains a byte
\* greater than 0x7F; otherwise the flags field is 0.
C17_Utf8FlagAbove7F == flagsFitEverywhere(127)

\* An archive has been emitted with an entry whose name ends in the byte 0x7F
\* and an entry whose name is not ASCII.
C17_Witness ==
    /\ pc = "archive" /\ zip.pc = "built" /\ Len(entries) = 2
    /\ entries[1].name = <<108, 127>> /\ Uint16(zip.data, 6) = 0
    /\ hasNonASCII(entries[2].name) /\ Uint16(zip.data, localStart(zip.data, 2) + 6) = flagUTF8

(***************************************************************************)
(* BuildTable on count vectors of 256 entries: k symbols that occur small  *)
(* times each, m symbols that occur big times each, the others not at all, *)
(* in this order or in the reverse one; and the counts of the inputs of    *)
(* the round trip.                                                         *)
(***************************************************************************)
countVector(k, small, m, big) ==
    [i \in 1..256 |-> IF i <= k THEN small ELSE IF i <= k + m THEN big ELSE 0] \o <<>>

countVectors ==
    {countVector(k, small, m, big) :
        k \in {0, 1, 100, 128, 200, 255}, small \in {1, 3},
        m \in {0, 1, 56, 128, 256}, big \in {100, 10000, 100000}}

CountInputs ==
    countVectors \cup {Reverse(c) : c \in countVectors}
    \cup {countBytes(d) : d \in AnsInputs}

TableInit ==
    /\ \E counts \in CountInputs : ans = [pc |-> "counts", counts |-> counts, tab |-> noTable]
    /\ bpe = idle /\ comp = idle /\ req = idle /\ entries = <<>> /\ zip = noZip
    /\ files = idle /\ out = idle /\ pc = "table" /\ shared = idle /\ procs = idle

\* tab := BuildTable(counts)
TableBuild ==
    /\ pc = "table" /\ ans.pc = "counts"
    /\ ans' = [ans EXCEPT !.pc = "built", !.tab = BuildTable(ans.counts)]
    /\ UNCHANGED <<bpe, comp, req, entries, zip, files, out, pc, shared, procs>>

SpecTable == TableInit /\ [][TableBuild]_vars

\* The frequencies sum to 16384, and every symbol that occurs has one.
frequenciesFit(counts, tab) ==
    /\ Sum(tab.freq) = ProbScale
    /\ \A i \in 1..256 : counts[i] # 0 => (tab.freq[i] >= 1 /\ tab.freq[i] <= ProbScale)
    /\ Sum(counts) = 0 => tab.freq[1] = ProbScale

\* Each cumulative frequency is the sum of the frequencies before it.
cumulativeFits(tab) == \A i \in 1..256 : tab.cum[i] = Sum(SubSeq(tab.freq, 1, i - 1))

\* C18 as stated: for every count vector of 256 entries BuildTable returns
\* frequencies that sum to 16384, in which every symbol with a non-zero count
\* has frequency >= 1 and each cumulative frequency is the sum of the
\* preceding frequencies; for the all-zero vector symbol 0 receives 16384.
C18_TableForEveryVector ==
    (pc = "table" /\ ans.pc = "built")
        => (frequenciesFit(ans.counts, ans.tab) /\ cumulativeFits(ans.tab))

\* C18, amended: the frequencies sum to 16384 and every symbol with a
\* non-zero count has frequency >= 1 for every count vector; each cumulative
\* frequency is the sum of the preceding frequencies for every vector with a
\* non-zero count; for the all-zero vector symbol 0 receives 16384 and every
\* cumulative frequency is 0.
C18_TableForNonZeroVector ==
    (pc = "table" /\ ans.pc = "built")
        => /\ frequenciesFit(ans.counts, ans.tab)
           /\ Sum(ans.counts) # 0 => cumulativeFits(ans.tab)
           /\ Sum(ans.counts) = 0 => \A i \in 1..256 : ans.tab.cum[i] = 0

\* A table has been built for counts whose normalised values exceeded 16384
\* before the largest of them took the excess off.
C18_Witness ==
    /\ pc = "table" /\ ans.pc = "built" /\ Sum(ans.counts) # 0
    /\ Sum(normalizeCounts(ans.counts, Sum(ans.counts))) > ProbScale
    /\ Sum(ans.tab.freq) = ProbScale

(***************************************************************************)
(* Goroutines that share one Compressor and the package vocab, each        *)
(* calling c.getEncoderForLang(lang) as the archive operations do for      *)
(* code.  Neither the package variables (goVocab, pythonVocab) nor the     *)
(* Compressor's fields (goEncoder, pyEncoder) are guarded by a lock or a   *)
(* sync.Once, so the steps of the calls interleave freely.  shared is      *)
(*   vocab[lang], enc[lang]  the variables, 0 for nil, else an object id   *)
(*   heap                    the objects allocated so far                  *)
(*   wrote                   who has assigned each variable                *)
(* and procs[g] is goroutine g: its position, the language it asked for,   *)
(* the object it built (own), the vocabulary it got (v) and its result.    *)
(* The writes that fill a new Vocabulary are ordered with the store of its *)
(* pointer only for the goroutine that makes them: another goroutine can   *)
(* see the pointer before it sees the contents.                            *)
(***************************************************************************)
\* Goroutines running at the same time.
MaxGoroutines == 2

Goroutines == 1..MaxGoroutines

SharedLangs == {"Go", "Python"}

VocabInit ==
    /\ shared = [vocab |-> [l \in SharedLangs |-> 0], enc |-> [l \in SharedLangs |-> 0],
                 heap |-> <<>>,
                 wrote |-> [vocab |-> [l \in SharedLangs |-> {}], enc |-> [l \in SharedLangs |-> {}]]]
    /\ procs = [g \in Goroutines |-> [pc |-> "idle"]]
    /\ comp = [vocab |-> "default"]
    /\ bpe = idle /\ ans = idle /\ req = idle /\ entries = <<>> /\ zip = noZip
    /\ files = idle /\ out = idle /\ pc = "vocab"

\* go func() { ... c.getEncoderForLang(lang) ... }()
VocabCall(g) ==
    /\ pc = "vocab" /\ procs[g].pc = "idle"
    /\ \E lang \in SharedLangs :
         procs' = [procs EXCEPT ![g] = [pc |-> "getEncoder", lang |-> lang, own |-> 0, v |-> 0,
                                        sawBuilt |-> TRUE, ret |-> 0]]
    /\ UNCHANGED <<bpe, ans, comp, req, entries, zip, files, out, pc, shared>>

\* "if c.goEncoder == nil {": a non-nil field is returned as it is.
EncoderCheck(g) ==
    /\ pc = "vocab" /\ procs[g].pc = "getEncoder"
    /\ procs' = [procs EXCEPT ![g] =
                    IF shared.enc[procs[g].lang] # 0
                    THEN [@ EXCEPT !.pc = "done", !.ret = shared.enc[procs[g].lang]]
                    ELSE [@ EXCEPT !.pc = "forLanguage"]]
    /\ UNCHANGED <<bpe, ans, comp, req, entries, zip, files, out, pc, shared>>

\* ForLanguage: "if goVocab == nil {"
ForLanguageCheck(g) ==
    /\ pc = "vocab" /\ procs[g].pc = "forLanguage"
    /\ procs' = [procs EXCEPT ![g] = [@ EXCEPT !.pc = IF shared.vocab[procs[g].lang] = 0
                                                      THEN "newVocabulary" ELSE "returnVocab"]]
    /\ UNCHANGED <<bpe, ans, comp, req, entries, zip, files, out, pc, shared>>

\* bpe.NewVocabulary(GoTokens) allocates the Vocabulary.
NewVocabularyAlloc(g) ==
    /\ pc = "vocab" /\ procs[g].pc = "newVocabulary"
    /\ shared' = [shared EXCEPT !.heap = Append(@, [kind |-> "Vocabulary", lang |-> procs[g].lang,
                                                    built |-> FALSE])]
    /\ procs' = [procs EXCEPT ![g] = [@ EXCEPT !.pc = "publishVocab", !.own = Len(shared.heap) + 1]]
    /\ UNCHANGED <<bpe, ans, comp, req, entries, zip, files, out, pc>>

\* The writes that fill the Vocabulary's maps reach the other goroutines.
NewVocabularyFill(g) ==
    /\ pc = "vocab" /\ procs[g].pc \in {"publishVocab", "returnVocab"}
    /\ procs[g].own # 0 /\ ~shared.heap[procs[g].own].built
    /\ shared' = [shared EXCEPT !.heap[procs[g].own].built = TRUE]
    /\ UNCHANGED <<bpe, ans, comp, req, entries, zip, files, out, pc, procs>>

\* "goVocab = ..."
ForLanguageStore(g) ==
    /\ pc = "vocab" /\ procs[g].pc = "publishVocab"
    /\ shared' = [shared EXCEPT !.vocab[procs[g].lang] = procs[g].own,
                                !.wrote.vocab[procs[g].lang] = @ \cup {g}]
    /\ procs' = [procs EXCEPT ![g] = [@ EXCEPT !.pc = "returnVocab"]]
    /\ UNCHANGED <<bpe, ans, comp, req, entries, zip, files, out, pc>>

\* "return goVocab" reads the variable; the goroutine has made its own writes.
ForLanguageReturn(g) ==
    /\ pc = "vocab" /\ procs[g].pc = "returnVocab"
    /\ procs[g].own # 0 => shared.heap[procs[g].own].built
    /\ procs' = [procs EXCEPT ![g] = [@ EXCEPT !.pc = "newEncoder", !.v = shared.vocab[procs[g].lang]]]
    /\ UNCHANGED <<bpe, ans, comp, req, entries, zip, files, out, pc, shared>>

\* bpe.NewEncoder(vocab) walks the vocabulary it was given and builds the trie.
NewEncoderBuild(g) ==
    /\ pc = "vocab" /\ procs[g].pc = "newEncoder"
    /\ shared' = [shared EXCEPT !.heap = Append(@, [kind |-> "Encoder", lang |-> procs[g].lang,
                                                    built |-> TRUE, vocab |-> procs[g].v])]
    /\ procs' = [procs EXCEPT ![g] = [@ EXCEPT !.pc = "publishEncoder", !.own = Len(shared.heap) + 1,
                                               !.sawBuilt = shared.heap[procs[g].v].built]]
    /\ UNCHANGED <<bpe, ans, comp, req, entries, zip, files, out, pc>>

\* "c.goEncoder = ..."
EncoderStore(g) ==
    /\ pc = "vocab" /\ procs[g].pc = "publishEncoder"
    /\ shared' = [shared EXCEPT !.enc[procs[g].lang] = procs[g].own,
                                !.wrote.enc[procs[g].lang] = @ \cup {g}]
    /\ procs' = [procs EXCEPT ![g] = [@ EXCEPT !.pc = "returnEncoder"]]
    /\ UNCHANGED <<bpe, ans, comp, req, entries, zip, files, out, pc>>

\* "return c.goEncoder"
EncoderReturn(g) ==
    /\ pc = "vocab" /\ procs[g].pc = "returnEncoder"
    /\ procs' = [procs EXCEPT ![g] = [@ EXCEPT !.pc = "done", !.ret = shared.enc[procs[g].lang]]]
    /\ UNCHANGED <<bpe, ans, comp, req, entries, zip, files, out, pc, shared>>

VocabNext ==
    \E g \in Goroutines :
       \/ VocabCall(g) \/ EncoderCheck(g) \/ ForLanguageCheck(g) \/ NewVocabularyAlloc(g)
       \/ NewVocabularyFill(g) \/ ForLanguageStore(g) \/ ForLanguageReturn(g)
       \/ NewEncoderBuild(g) \/ EncoderStore(g) \/ EncoderReturn(g)

SpecVocab == VocabInit /\ [][VocabNext]_vars

\* C19: each vocabulary and each per-language encoder is built once and not
\* modified afterwards: of the goroutines that call ForLanguage and the
\* encoder getters without locking, no two write the same variable, each
\* sees a fully built vocabulary, and those that ask for the same language
\* get the same encoder over the same vocabulary.
C19_BuiltOnceAndShared ==
    pc = "vocab"
        => /\ \A l \in SharedLangs :
                 Cardinality(shared.wrote.vocab[l]) <= 1 /\ Cardinality(shared.wrote.enc[l]) <= 1
           /\ \A g \in Goroutines : procs[g].pc # "idle" => procs[g].sawBuilt
           /\ \A g, h \in Goroutines :
                 (procs[g].pc = "done" /\ procs[h].pc = "done" /\ procs[g].lang = procs[h].lang)
                    => /\ procs[g].ret = procs[h].ret
                       /\ shared.heap[procs[g].ret].vocab = shared.heap[procs[h].ret].vocab

(***************************************************************************)
(* The parallel API of package ans.  CompressParallel and                  *)
(* DecompressParallel start one goroutine per chunk; a goroutine takes a   *)
(* slot of the semaphore, works on its chunk, gives the slot back and      *)
(* tells the WaitGroup.  shared is the caller and what the goroutines      *)
(* share (results, output, errCh, sem, wg); procs[k] is the goroutine of   *)
(* chunk k - 1.  int is the int of a 32-bit build: sums wrap around.       *)
(***************************************************************************)
MinChunkSize == 4096

MaxInt == (2^30 - 1) + 2^30

MinInt == (-MaxInt) - 1

\* a + b in int, with wrap-around
addInt(a, b) ==
    IF b > 0 /\ a > MaxInt - b THEN (a - MaxInt - 1) + (b - MaxInt - 1)
    ELSE IF b < 0 /\ a < MinInt - b THEN (a + MaxInt + 1) + (b + MaxInt + 1)
    ELSE a + b

\* a / b in int for b > 0: the quotient is truncated toward zero
divInt(a, b) ==
    IF a >= 0 THEN a \div b
    ELSE -(((-(a + 1)) \div b) + (IF (-(a + 1)) % b = b - 1 THEN 1 ELSE 0))

\* "if chunkSize < MinChunkSize { chunkSize = MinChunkSize }"
clampChunkSize(chunkSize) == IF chunkSize < MinChunkSize THEN MinChunkSize ELSE chunkSize

\* "numChunks := (len(data) + chunkSize - 1) / chunkSize"
numChunksOf(n, chunkSize) == divInt(addInt(addInt(n, chunkSize), -1), chunkSize)

\* "chunkData := data[start:end]" of the goroutine started with idx
chunkOf(data, chunkSize, idx) ==
    Slice(data, idx * chunkSize,
          IF idx * chunkSize + chunkSize > Len(data) THEN Len(data) ELSE idx * chunkSize + chunkSize)

\* The chunk table and the payloads that follow it, from results.
chunkTable(results) ==
    FoldRange(LAMBDA acc, k : acc \o PutUint32(results[k].origSize) \o PutUint32(Len(results[k].compressed)),
              <<>>, 1, Len(results))

chunkPayloads(results) == FoldRange(LAMBDA acc, k : acc \o results[k].compressed, <<>>, 1, Len(results))

\* The output CompressParallel builds after wg.Wait().
assembleParallel(n, results) ==
    PutUint32(n) \o PutUint32(Len(results)) \o chunkTable(results) \o chunkPayloads(results)

\* "copy(output[outStart:], dec)"
copyAt(output, outStart, dec) ==
    [i \in 1..Len(output) |->
        IF i > outStart /\ i <= outStart + Len(dec) THEN dec[i - outStart] ELSE output[i]] \o <<>>

ParallelInputs ==
    {<<>>, <<116>>, <<116, 104>>, <<116, 104, 101>>, <<116, 104, 101, 32>>,
     Repeat(<<116>>, MinChunkSize) \o <<104>>,
     Repeat(<<116>>, MinChunkSize) \o Repeat(<<104>>, MinChunkSize) \o <<101>>}

ChunkSizes == {1, MinChunkSize, MinChunkSize + 1, MaxInt}

ParallelInit ==
    /\ \E x \in ParallelInputs, chunkSize \in ChunkSizes, workers \in {1, 2} :
          shared = [pc |-> "call", data |-> x, chunkSize |-> chunkSize, workers |-> workers,
                    comp |-> <<>>, output |-> <<>>, errCh |-> <<>>]
    /\ procs = <<>>
    /\ comp = idle /\ bpe = idle /\ ans = idle /\ req = idle /\ entries = <<>> /\ zip = noZip
    /\ files = idle /\ out = idle /\ pc = "parallel"

\* CompressParallel up to "sem := make(chan struct{}, workers)"; make panics
\* on a negative length.
started(s, n, numChunks, fn) ==
    IF numChunks < 0 THEN [s EXCEPT !.pc = "panic"]
    ELSE [pc |-> "spawn", fn |-> fn, data |-> s.data, chunkSize |-> s.chunkSize, workers |-> s.workers,
          n |-> n, numChunks |-> numChunks, i |-> 0, wg |-> 0, sem |-> 0,
          results |-> [k \in 1..numChunks |-> [compressed |-> <<>>, origSize |-> 0]] \o <<>>,
          comp |-> <<>>, chunks |-> <<>>, output |-> <<>>, errCh |-> <<>>, outPos |-> 0, dataPos |-> 0]

CompressParallelCall ==
    /\ pc = "parallel" /\ shared.pc = "call"
    /\ shared' = IF Len(shared.data) = 0
                 THEN [shared EXCEPT !.pc = "compressed", !.comp = <<0, 0, 0, 0, 0, 0, 0, 0>>]
                 ELSE started([shared EXCEPT !.chunkSize = clampChunkSize(@)], Len(shared.data),
                              numChunksOf(Len(shared.data), clampChunkSize(shared.chunkSize)),
                              "CompressParallel")
    /\ UNCHANGED <<bpe, ans, comp, req, entries, zip, files, out, pc, procs>>

\* One turn of "for i := 0; i < numChunks; i++ { wg.Add(1); go func(idx int) {...}(i) }"
CompressParallelSpawn ==
    /\ pc = "parallel" /\ shared.pc = "spawn" /\ shared.fn = "CompressParallel"
    /\ shared.i < shared.numChunks
    /\ shared' = [shared EXCEPT !.wg = @ + 1, !.i = @ + 1]
    /\ procs' = Append(procs, [pc |-> "start", idx |-> shared.i])
    /\ UNCHANGED <<bpe, ans, comp, req, entries, zip, files, out, pc>>

\* "sem <- struct{}{}" blocks while the channel is full.
WorkerAcquire(k) ==
    /\ pc = "parallel" /\ shared.pc = "spawn" /\ k \in DOMAIN procs /\ procs[k].pc = "start"
    /\ shared.sem < shared.workers
    /\ shared' = [shared EXCEPT !.sem = @ + 1]
    /\ procs' = [procs EXCEPT ![k].pc = "work"]
    /\ UNCHANGED <<bpe, ans, comp, req, entries, zip, files, out, pc>>

\* The goroutine of CompressParallel: Compress(chunkData) and "results[idx] = ..."
WorkerCompress(k) ==
    /\ pc = "parallel" /\ shared.pc = "spawn" /\ shared.fn = "CompressParallel"
    /\ k \in DOMAIN procs /\ procs[k].pc = "work"
    /\ shared' = [shared EXCEPT !.results[procs[k].idx + 1] =
                     [compressed |-> AnsCompress(chunkOf(shared.data, shared.chunkSize, procs[k].idx)),
                      origSize   |-> Len(chunkOf(shared.data, shared.chunkSize, procs[k].idx))]]
    /\ procs' = [procs EXCEPT ![k].pc = "release"]
    /\ UNCHANGED <<bpe, ans, comp, req, entries, zip, files, out, pc>>

\* "defer func() { <-sem }()"
WorkerRelease(k) ==
    /\ pc = "parallel" /\ shared.pc = "spawn" /\ k \in DOMAIN procs /\ procs[k].pc = "release"
    /\ shared' = [shared EXCEPT !.sem = @ - 1]
    /\ procs' = [procs EXCEPT ![k].pc = "deferred"]
    /\ UNCHANGED <<bpe, ans, comp, req, entries, zip, files, out, pc>>

\* "defer wg.Done()"
WorkerDone(k) ==
    /\ pc = "parallel" /\ shared.pc = "spawn" /\ k \in DOMAIN procs /\ procs[k].pc = "deferred"
    /\ shared' = [shared EXCEPT !.wg = @ - 1]
    /\ procs' = [procs EXCEPT ![k].pc = "finished"]
    /\ UNCHANGED <<bpe, ans, comp, req, entries, zip, files, out, pc>>

\* "wg.Wait()" and the rest of CompressParallel; Compress returns no error.
CompressParallelReturn ==
    /\ pc = "parallel" /\ shared.pc = "spawn" /\ shared.fn = "CompressParallel"
    /\ shared.i >= shared.numChunks /\ shared.wg = 0
    /\ shared' = [shared EXCEPT !.pc = "compressed", !.comp = assembleParallel(shared.n, shared.results)]
    /\ UNCHANGED <<bpe, ans, comp, req, entries, zip, files, out, pc, procs>>

\* The chunk table DecompressParallel reads.
readChunks(data, numChunks) ==
    [k \in 1..numChunks |-> [origSize |-> Uint32(data, 8 * k), compSize |-> Uint32(data, 8 * k + 4)]] \o <<>>

\* DecompressParallel up to "errCh := make(chan error, numChunks)"
DecompressParallelCall ==
    /\ pc = "parallel" /\ shared.pc = "compressed"
    /\ shared' =
          IF Len(shared.comp) < 8 THEN [shared EXCEPT !.pc = "done", !.output = <<>>, !.errCh = <<ErrCorrupted>>]
          ELSE IF Uint32(shared.comp, 0) = 0 THEN [shared EXCEPT !.pc = "done", !.output = <<>>, !.errCh = <<>>]
          ELSE IF Len(shared.comp) < 8 + Uint32(shared.comp, 4) * 8
               THEN [shared EXCEPT !.pc = "done", !.output = <<>>, !.errCh = <<ErrCorrupted>>]
          ELSE [shared EXCEPT !.pc = "spawn", !.fn = "DecompressParallel", !.i = 0, !.wg = 0, !.sem = 0,
                              !.numChunks = Uint32(shared.comp, 4),
                              !.chunks = readChunks(shared.comp, Uint32(shared.comp, 4)),
                              !.output = Repeat(<<0>>, Uint32(shared.comp, 0)),
                              !.outPos = 0, !.dataPos = 8 + Uint32(shared.comp, 4) * 8]
    /\ procs' = <<>>
    /\ UNCHANGED <<bpe, ans, comp, req, entries, zip, files, out, pc>>

\* The array behind the slice DecompressParallel was given: the slice itself,
\* or, when the caller cut a longer slice (req), the array of that one up to
\* the capacity that is left.
backingArray == IF req.pc = "cut" THEN SubSeq(req.whole, 1, req.cap) ELSE shared.comp

\* One turn of the loop that starts the goroutines of DecompressParallel.
\* "data[dataPos : dataPos+chunks[i].compSize]" panics when it ends beyond
\* the capacity of data, and reaches the bytes between length and capacity.
DecompressParallelSpawn ==
    /\ pc = "parallel" /\ shared.pc = "spawn" /\ shared.fn = "DecompressParallel"
    /\ shared.i < shared.numChunks
    /\ IF shared.dataPos + shared.chunks[shared.i + 1].compSize > Len(backingArray)
       THEN /\ shared' = [shared EXCEPT !.pc = "panic"]
            /\ procs' = procs
       ELSE /\ shared' = [shared EXCEPT !.wg = @ + 1, !.i = @ + 1,
                                       !.dataPos = @ + shared.chunks[shared.i + 1].compSize,
                                       !.outPos = @ + shared.chunks[shared.i + 1].origSize]
            /\ procs' = Append(procs, [pc |-> "start", idx |-> shared.i, outStart |-> shared.outPos,
                                      wrote |-> {},
                                      chunk |-> Slice(backingArray, shared.dataPos,
                                                      shared.dataPos + shared.chunks[shared.i + 1].compSize)])
    /\ UNCHANGED <<bpe, ans, comp, req, entries, zip, files, out, pc>>

\* What the goroutine does with the result of Decompress(chunk);
\* "output[outStart:]" panics when outStart is beyond the output.
decompressedInto(s, outStart, r) ==
    IF r.err # "nil" THEN [s EXCEPT !.errCh = Append(@, r.err)]
    ELSE IF outStart > Len(s.output) THEN [s EXCEPT !.pc = "panic"]
    ELSE [s EXCEPT !.output = copyAt(@, outStart, r.data)]

\* The positions of output (from 1) that copy writes: as many bytes as dec
\* holds and output has room for.
copyRange(output, outStart, r) ==
    IF r.err # "nil" \/ outStart > Len(output) THEN {}
    ELSE {i \in 1..Len(output) : i > outStart /\ i <= outStart + Len(r.data)}

\* The goroutine of DecompressParallel.
WorkerDecompress(k) ==
    /\ pc = "parallel" /\ shared.pc = "spawn" /\ shared.fn = "DecompressParallel"
    /\ k \in DOMAIN procs /\ procs[k].pc = "work"
    /\ \E r \in {AnsDecompress(procs[k].chunk)} :
          /\ shared' = decompressedInto(shared, procs[k].outStart, r)
          /\ procs' = [procs EXCEPT ![k].pc = "release",
                                    ![k].wrote = copyRange(shared.output, procs[k].outStart, r)]
    /\ UNCHANGED <<bpe, ans, comp, req, entries, zip, files, out, pc>>

\* "wg.Wait()", "close(errCh)" and the return of DecompressParallel.
DecompressParallelReturn ==
    /\ pc = "parallel" /\ shared.pc = "spawn" /\ shared.fn = "DecompressParallel"
    /\ shared.i >= shared.numChunks /\ shared.wg = 0
    /\ shared' = [shared EXCEPT !.pc = "done", !.output = IF shared.errCh # <<>> THEN <<>> ELSE @]
    /\ UNCHANGED <<bpe, ans, comp, req, entries, zip, files, out, pc, procs>>

ParallelNext ==
    \/ CompressParallelCall \/ CompressParallelSpawn \/ CompressParallelReturn
    \/ DecompressParallelCall \/ DecompressParallelSpawn \/ DecompressParallelReturn
    \/ \E k \in DOMAIN procs : WorkerAcquire(k)
    \/ \E k \in DOMAIN procs : WorkerCompress(k)
    \/ \E k \in DOMAIN procs : WorkerDecompress(k)
    \/ \E k \in DOMAIN procs : WorkerRelease(k)
    \/ \E k \in DOMAIN procs : WorkerDone(k)

SpecParallel == ParallelInit /\ [][ParallelNext]_vars

\* The chunks of x in input order, for a chunk size of at least MinChunkSize.
inputChunks(x, chunkSize) ==
    [k \in 1..(IF Len(x) <= chunkSize THEN 1 ELSE (Len(x) + (chunkSize - 1)) \div chunkSize) |->
        [compressed |-> AnsCompress(chunkOf(x, chunkSize, k - 1)),
         origSize   |-> Len(chunkOf(x, chunkSize, k - 1))]] \o <<>>

\* C20: for every input x, every requested chunk size (below 4096: raised to
\* 4096) and every interleaving of the goroutines, CompressParallel returns
\* only after all its goroutines have finished, its output holds the chunk
\* table and the payloads in input-chunk order, and DecompressParallel of
\* that output returns exactly x.
C20_ParallelRoundTrip ==
    pc = "parallel"
        => /\ shared.pc # "panic"
           /\ (shared.pc = "compressed" /\ shared.data # <<>>)
                 => /\ \A k \in DOMAIN procs : procs[k].pc = "finished"
                    /\ shared.comp = assembleParallel(Len(shared.data),
                                                      inputChunks(shared.data, shared.chunkSize))
           /\ shared.pc = "done" => (shared.errCh = <<>> /\ shared.output = shared.data)

(***************************************************************************)
(* Metadata of one entry: an archive of a single entry is built with a     *)
(* modification time and a mode, emitted, and read back by ListFiles and   *)
(* GetFileInfo.  req is the call, entries the archive's entries.           *)
(***************************************************************************)
\* Times around the limits of the formats: the DOS epoch, the Unix epoch and
\* the second before it, the ends of the signed and unsigned 32-bit ranges.
ModTimes ==
    {testTime, Date(2024, 6, 15, 10, 30, 0), Date(2024, 6, 15, 10, 30, 1),
     Date(1980, 1, 1, 0, 0, 0), Date(1970, 1, 1, 0, 0, 0), Date(1969, 12, 31, 23, 59, 59),
     Date(1900, 1, 1, 0, 0, 0), Date(2038, 1, 19, 3, 14, 7), Date(2038, 1, 19, 3, 14, 8),
     Date(2106, 2, 7, 6, 28, 15), Date(2106, 2, 7, 6, 28, 16), Date(2200, 1, 1, 0, 0, 0)}

\* os.FileMode values: 0, 0755 and 01644 as the bits 9..0, with and without
\* os.ModeDir and os.ModeSymlink.
FileModes == [perm : {0, 493, 932}, dir : BOOLEAN, symlink : BOOLEAN]

MetaInit ==
    /\ comp = [vocab |-> "default"]
    /\ req = idle /\ entries = <<>> /\ zip = noZip /\ files = idle /\ out = idle
    /\ bpe = idle /\ ans = idle /\ pc = "meta" /\ shared = idle /\ procs = idle

\* a.Add("th", name, modTime, mode), the name being "a" or "d/".
MetaAdd ==
    /\ pc = "meta" /\ req = idle
    /\ \E name \in {<<97>>, <<100, 47>>}, modTime \in ModTimes, mode \in FileModes :
         \E profile \in Detect(<<116, 104>>) :
            /\ entries' = <<Add(comp, <<116, 104>>, name, modTime, mode, profile)>>
            /\ req' = [pc |-> "added", op |-> "Add", name |-> name, modTime |-> modTime, mode |-> mode]
    /\ UNCHANGED <<bpe, ans, comp, zip, files, out, pc, shared, procs>>

\* a.AddStore("th", name, modTime, mode)
MetaAddStore ==
    /\ pc = "meta" /\ req = idle
    /\ \E name \in {<<97>>, <<100, 47>>}, modTime \in ModTimes, mode \in FileModes :
         /\ entries' = <<AddStore(<<116, 104>>, name, modTime, mode)>>
         /\ req' = [pc |-> "added", op |-> "AddStore", name |-> name, modTime |-> modTime, mode |-> mode]
    /\ UNCHANGED <<bpe, ans, comp, zip, files, out, pc, shared, procs>>

\* a.AddDirectory(name, modTime, mode), the name being "d" or "d/".
MetaAddDirectory ==
    /\ pc = "meta" /\ req = idle
    /\ \E name \in {<<100>>, <<100, 47>>}, modTime \in ModTimes, mode \in FileModes :
         /\ entries' = <<AddDirectory(name, modTime, mode)>>
         /\ req' = [pc |-> "added", op |-> "AddDirectory", name |-> name, modTime |-> modTime,
                    mode |-> mode]
    /\ UNCHANGED <<bpe, ans, comp, zip, files, out, pc, shared, procs>>

\* a.AddSymlink(name, "a", modTime, mode), the name being "l" or "l/".
MetaAddSymlink ==
    /\ pc = "meta" /\ req = idle
    /\ \E name \in {<<108>>, <<108, 47>>}, modTime \in ModTimes, mode \in FileModes :
         /\ entries' = <<AddSymlink(name, <<97>>, modTime, mode)>>
         /\ req' = [pc |-> "added", op |-> "AddSymlink", name |-> name, modTime |-> modTime,
                    mode |-> mode]
    /\ UNCHANGED <<bpe, ans, comp, zip, files, out, pc, shared, procs>>

\* a.Bytes()
MetaBytes ==
    /\ pc = "meta" /\ req.pc = "added" /\ zip = noZip
    /\ zip' = [pc |-> "built", data |-> Bytes(entries), damaged |-> FALSE]
    /\ UNCHANGED <<bpe, ans, comp, req, entries, files, out, pc, shared, procs>>

\* ListFiles(zip)
MetaList ==
    /\ pc = "meta" /\ zip.pc = "built" /\ files = idle
    /\ \E r \in {ListFiles(zip.data)} :
          files' = [pc |-> "listed", err |-> r.err, files |-> r.files]
    /\ UNCHANGED <<bpe, ans, comp, req, entries, zip, out, pc, shared, procs>>

\* GetFileInfo(zip)
MetaInfo ==
    /\ pc = "meta" /\ zip.pc = "built" /\ out = idle
    /\ \E r \in {GetFileInfo(zip.data)} :
          out' = [pc |-> "done", err |-> r.err, info |-> IF r.err = "nil" THEN r.info ELSE idle]
    /\ UNCHANGED <<bpe, ans, comp, req, entries, zip, files, pc, shared, procs>>

MetaNext ==
    \/ MetaAdd \/ MetaAddStore \/ MetaAddDirectory \/ MetaAddSymlink
    \/ MetaBytes \/ MetaList \/ MetaInfo

SpecMeta == MetaInit /\ [][MetaNext]_vars

\* The times a and b are at most n seconds apart (n less than a day).
withinSeconds(a, b, n) ==
    /\ a.days - b.days \in {-1, 0, 1}
    /\ (a.days - b.days) * 86400 + a.secs - b.secs \in (-n)..n

\* C21: for every entry written with a non-zero modification time m, the
\* modification time that GetFileInfo and ListFiles report for it (the value
\* of the extended timestamp, which overrides the DOS date and time) differs
\* from m by at most 2 seconds.
C21_ModTimeWithinTwoSeconds ==
    (pc = "meta" /\ req.pc = "added" /\ ~IsZero(req.modTime))
        => /\ files.pc = "listed"
                => (files.err = "nil" /\ Len(files.files) = 1
                    /\ withinSeconds(files.files[1].ModTime, req.modTime, 2))
           /\ out.pc = "done"
                => (out.err = "nil" /\ withinSeconds(out.info.ModTime, req.modTime, 2))

\* The file type of a mode; goModeToUnix tests the symlink bit first.
fileType(mode) == IF mode.symlink THEN "symlink" ELSE IF mode.dir THEN "directory" ELSE "regular"

\* C22, as stated: for every entry added with in-memory mode m, the mode
\* ListFiles reports has the bits 9..0 of m as its permission bits and the
\* file type (regular, directory or symlink) of m.
C22_ModeBits9To0 ==
    (pc = "meta" /\ files.pc = "listed")
        => /\ files.err = "nil" /\ Len(files.files) = 1
           /\ files.files[1].Mode.perm = entries[1].mode.perm
           /\ fileType(files.files[1].Mode) = fileType(entries[1].mode)

\* C22, amended: for every entry added with in-memory mode m, the mode
\* ListFiles reports has the bits 8..0 of m as its permission bits (bit 9 is
\* dropped), is a symlink exactly if m has the symlink bit, and is a
\* directory exactly if m has the directory bit without the symlink bit or
\* the entry's name ends in a slash.
C22_ModeBits8To0 ==
    (pc = "meta" /\ files.pc = "listed")
        => /\ files.err = "nil" /\ Len(files.files) = 1
           /\ files.files[1].Mode.perm = entries[1].mode.perm % 512
           /\ files.files[1].Mode.symlink = entries[1].mode.symlink
           /\ files.files[1].Mode.dir = ((entries[1].mode.dir /\ ~entries[1].mode.symlink)
                                          \/ HasSuffixSlash(entries[1].name))

\* A symlink added with mode 01644 has been listed with the permissions 0644.
C22_Witness ==
    /\ pc = "meta" /\ files.pc = "listed" /\ req.op = "AddSymlink"
    /\ entries[1].mode.perm = 932 /\ entries[1].mode.symlink
    /\ files.files[1].Mode.perm = 420 /\ files.files[1].Mode.symlink

(***************************************************************************)
(* DecompressAll.  The map it returns is a function from names to bytes;   *)
(* <<>> is the empty map.                                                  *)
(***************************************************************************)
\* "result[info.Name] = content"
mapPut(result, name, content) ==
    [n \in DOMAIN result \cup {name} |-> IF n = name THEN content ELSE result[n]]

\* The loop of DecompressAll from the i-th listed file on; the names that end
\* in a slash are passed over unless dirsToo.
RECURSIVE decompressAllFrom(_, _, _, _, _, _)
decompressAllFrom(c, data, listed, i, result, dirsToo) ==
    IF i > Len(listed) THEN [err |-> "nil", files |-> result]
    ELSE IF ~dirsToo /\ HasSuffixSlash(listed[i].Name)
         THEN decompressAllFrom(c, data, listed, i + 1, result, dirsToo)
    ELSE IF DecompressFile(c, data, listed[i]).err # "nil"
         THEN [err |-> DecompressFile(c, data, listed[i]).err, files |-> <<>>]
    ELSE decompressAllFrom(c, data, listed, i + 1,
                           mapPut(result, listed[i].Name, DecompressFile(c, data, listed[i]).data),
                           dirsToo)

\* The body of DecompressAll once ListFiles has returned l.
decompressAllOf(c, data, l, dirsToo) ==
    IF l.err # "nil" THEN [err |-> l.err, files |-> <<>>]
    ELSE decompressAllFrom(c, data, l.files, 1, <<>>, dirsToo)

\* DecompressAll without "if strings.HasSuffix(info.Name, "/") { continue }"
DecompressAllDirsToo(c, data) == decompressAllOf(c, data, ListFiles(data), TRUE)

\* Compressor.DecompressAll: [err, files]
DecompressAll(c, data) == decompressAllOf(c, data, ListFiles(data), FALSE)

\* a.Add("th", "x/", modTime, 0644): a file under a name that ends in a slash.
AllAddSlash ==
    /\ pc = "archive" /\ zip = noZip /\ Len(entries) < MaxEntries
    /\ \E profile \in Detect(<<116, 104>>) :
         /\ entries' = Append(entries, Add(comp, <<116, 104>>, <<120, 47>>, testTime, Mode(420), profile))
         /\ req' = Append(req, [op |-> "Add", name |-> <<120, 47>>, data |-> <<116, 104>>,
                                profile |-> profile])
    /\ UNCHANGED <<bpe, ans, comp, zip, files, out, pc, shared, procs>>

\* a.Add(data, name, modTime, 0644) with the short inputs of AddCalls.
AllAdd ==
    /\ pc = "archive" /\ zip = noZip /\ Len(entries) < MaxEntries
    /\ \E x \in {y \in AddCalls : Len(y.data) <= 8} :
         /\ entries' = Append(entries, Add(comp, x.data, x.name, x.modTime, Mode(420), x.profile))
         /\ req' = Append(req, [op |-> "Add", name |-> x.name, data |-> x.data, profile |-> x.profile])
    /\ UNCHANGED <<bpe, ans, comp, zip, files, out, pc, shared, procs>>

\* c.DecompressAll(zip)
AllDecompress ==
    /\ pc = "archive" /\ zip.pc = "built" /\ out = idle
    /\ \E r \in {DecompressAll(comp, zip.data)} :
          out' = [pc |-> "all", err |-> r.err, files |-> r.files]
    /\ UNCHANGED <<bpe, ans, comp, req, entries, zip, files, pc, shared, procs>>

AllNext ==
    \/ AllAdd \/ ArchAddStore \/ ArchAddDirectory \/ ArchAddSymlink \/ AllAddSlash
    \/ ArchBytes \/ AllDecompress

SpecAll == ArchInit /\ [][AllNext]_vars

\* The names given to the calls are pairwise distinct.
distinctNames == \A i, j \in 1..Len(req) : i # j => req[i].name # req[j].name

\* The map holds, for each call in calls, the bytes added under its name.
holdsExactly(m, calls) ==
    /\ DOMAIN m = {req[i].name : i \in calls}
    /\ \A i \in calls : m[req[i].name] = req[i].data

tokenAt(v, text, pos, n) ==
    /\ n >= 1 /\ pos + n <= Len(text)
    /\ \E i \in 1..Len(v.tokens) : v.tokens[i] = SubSeq(text, pos + 1, pos + n)

\* The id emitted at pos, with the encoder advancing to next, is the id of
\* the longest token of v that is a prefix of the remaining input.
longestTokenEmitted(v, text, pos, id, next) ==
    /\ id \in 0..(Len(v.tokens) - 1)
    /\ next > pos /\ next <= Len(text)
    /\ v.tokens[id + 1] = SubSeq(text, pos + 1, next)
    /\ \A n \in (next - pos + 1)..(Len(text) - pos) : ~tokenAt(v, text, pos, n)

\* C24: at every position of the input the encoder emits the id of the
\* longest vocabulary token that is a prefix of the remaining input and
\* advances by that token's length; it never goes back (the ids emitted so
\* far stay), so the byte strings of the emitted tokens concatenate to the
\* input read so far.  The vocabulary holds all 256 single-byte tokens.
C24_GreedyLongestMatch ==
    [][(bpe.pc = "encode" /\ bpe.vocab \in CompleteVocabs /\ bpe'.ids # bpe.ids)
          => /\ Len(bpe'.ids) = Len(bpe.ids) + 1
             /\ SubSeq(bpe'.ids, 1, Len(bpe.ids)) = bpe.ids
             /\ longestTokenEmitted(VocabOf(bpe.vocab), bpe.text, bpe.pos,
                                    bpe'.ids[Len(bpe'.ids)], bpe'.pos)
             /\ VocabDecode(VocabOf(bpe.vocab), bpe'.ids) = SubSeq(bpe.text, 1, bpe'.pos)]_vars

\* The encoder has emitted one token of two bytes or more where a shorter
\* token is a prefix too, and has input left.
C24_Witness ==
    /\ bpe.pc = "encode" /\ bpe.vocab \in CompleteVocabs
    /\ Len(bpe.ids) = 1 /\ bpe.pos >= 2 /\ bpe.pos < Len(bpe.text)
    /\ tokenAt(VocabOf(bpe.vocab), bpe.text, 0, 1)

(***************************************************************************)
(* DecompressParallel on input that is not what CompressParallel returned: *)
(* the output is cut short, or its chunk table is changed, before it is    *)
(* decompressed.  req tells what was done to it.                           *)
(***************************************************************************)
ReceivedInputs ==
    {<<>>, <<116>>, <<116, 104, 101, 32>>, Repeat(<<116>>, MinChunkSize) \o <<104>>}

ReceivedInit ==
    /\ \E x \in ReceivedInputs, workers \in {1, 2} :
          shared = [pc |-> "call", data |-> x, chunkSize |-> MinChunkSize, workers |-> workers,
                    comp |-> <<>>, output |-> <<>>, errCh |-> <<>>]
    /\ procs = <<>>
    /\ comp = idle /\ bpe = idle /\ ans = idle /\ req = idle /\ entries = <<>> /\ zip = noZip
    /\ files = idle /\ out = idle /\ pc = "parallel"

\* The lengths a frame is cut to: inside the header, after the header, inside
\* and after the chunk table it declares, and one byte before its end.
cutsOf(frame) ==
    {n \in {4, 8, 8 * Uint32(frame, 4) + 7, 8 * Uint32(frame, 4) + 8, Len(frame) - 1} :
        n >= 0 /\ n < Len(frame)}

\* The caller passes frame[:keep]: either a copy of that length, or a slice
\* of the whole frame, whose capacity reaches the end of the frame.
ReceivedTruncate ==
    /\ pc = "parallel" /\ shared.pc = "compressed" /\ req = idle
    /\ \E keep \in cutsOf(shared.comp), cap \in {Len(shared.comp), 0} :
         /\ req' = [pc |-> "cut", whole |-> shared.comp, cap |-> IF cap = 0 THEN keep ELSE cap]
         /\ shared' = [shared EXCEPT !.comp = SubSeq(@, 1, keep)]
    /\ UNCHANGED <<bpe, ans, comp, entries, zip, files, out, pc, procs>>

\* The original size the table declares for the first chunk is lowered by one.
ReceivedTamper ==
    /\ pc = "parallel" /\ shared.pc = "compressed" /\ req = idle
    /\ Len(shared.comp) >= 16 /\ Uint32(shared.comp, 8) >= 1
    /\ req' = [pc |-> "tampered"]
    /\ shared' = [shared EXCEPT !.comp = SubSeq(@, 1, 8) \o PutUint32(Uint32(@, 8) - 1)
                                         \o SubSeq(@, 13, Len(@))]
    /\ UNCHANGED <<bpe, ans, comp, entries, zip, files, out, pc, procs>>

ReceivedNext == ParallelNext \/ ReceivedTruncate \/ ReceivedTamper

SpecReceived == ReceivedInit /\ [][ReceivedNext]_vars

\* C25: for every input that is truncated (shorter than the chunk table it
\* declares, or shorter than the chunk payloads that table declares)
\* DecompressParallel returns an error and no data; it neither crashes nor
\* returns bytes.
C25_TruncatedIsAnError ==
    (pc = "parallel" /\ req.pc = "cut")
        => /\ shared.pc # "panic"
           /\ shared.pc = "done" => (shared.errCh # <<>> /\ shared.output = <<>>)

\* DecompressParallel has returned without an error.
accepted ==
    /\ pc = "parallel" /\ shared.pc = "done" /\ shared.errCh = <<>> /\ procs # <<>>

\* C29: for every input DecompressParallel accepts, each goroutine has
\* written only the output positions [start_i, start_i + orig_size_i) of its
\* own chunk, start_i being the sum of the original sizes the table declares
\* for the chunks before it, and no two goroutines have written the same byte.
C29_WritesStayInOwnChunk ==
    accepted
        => /\ \A k \in DOMAIN procs :
                 procs[k].wrote \subseteq
                    (procs[k].outStart + 1)..(procs[k].outStart + shared.chunks[k].origSize)
           /\ \A j, k \in DOMAIN procs : j # k => procs[j].wrote \cap procs[k].wrote = {}

(***************************************************************************)
(* bpe.Train.  bpe holds the locals of Train: text, numMerges, the map     *)
(* tokenRanks (the set of its <<token, rank>> pairs), ids, nextRank and    *)
(* the loop counter merge.                                                 *)
(***************************************************************************)
TrainLen == 6

MaxMerges == 3

TrainAlphabet == {97, 98}

\* The text of TestTrain, "aaabbbaaabbb".
trainTestText == <<97, 97, 97, 98, 98, 98, 97, 97, 97, 98, 98, 98>>

TrainTexts == SeqsUpTo(TrainAlphabet, TrainLen) \cup {trainTestText}

\* strconv: the decimal digits of a non-negative int, as characters.
RECURSIVE itoa(_)
itoa(n) == IF n < 10 THEN <<48 + n>> ELSE itoa(n \div 10) \o <<48 + (n % 10)>>

\* strconv.Atoi of a string of decimal digits.
atoi(s) == FoldRange(LAMBDA acc, i : acc * 10 + (s[i] - 48), 0, 1, Len(s))

\* fmt.Sprintf("%d,%d", a, b)
pairKey(a, b) == itoa(a) \o <<44>> \o itoa(b)

\* strings.Split(key, ",") followed by Atoi of the two parts.
pairOfKey(key) ==
    LET comma == CHOOSE i \in 1..Len(key) : key[i] = 44
    IN <<atoi(SubSeq(key, 1, comma - 1)), atoi(SubSeq(key, comma + 1, Len(key)))>>

\* pairCounts: the keys of the adjacent pairs of ids, each with the number
\* of positions it starts at.
pairKeys(ids) == {pairKey(ids[i], ids[i + 1]) : i \in 1..(Len(ids) - 1)}

pairCount(ids, key) ==
    Cardinality({i \in 1..(Len(ids) - 1) : pairKey(ids[i], ids[i + 1]) = key})

\* bestCount after the loop over pairCounts.
bestCountOf(ids) ==
    IF pairKeys(ids) = {} THEN 0
    ELSE CHOOSE c \in {pairCount(ids, k) : k \in pairKeys(ids)} :
            \A k \in pairKeys(ids) : pairCount(ids, k) <= c

\* The keys the loop over pairCounts can leave in bestPair: the first key
\* of the largest count in the map's iteration order, which is not specified.
bestPairs(ids) == {k \in pairKeys(ids) : pairCount(ids, k) = bestCountOf(ids)}

\* The loop "for b, r := range tokenRanks { if r == id ... break }": the
\* bytes of a token of that rank, nothing when no token has it.
bytesOfRank(tokenRanks, id) ==
    IF \E p \in tokenRanks : p[2] = id
    THEN {p[1] : p \in {q \in tokenRanks : q[2] = id}}
    ELSE {<<>>}

\* tokenRanks[key] = rank
rankPut(tokenRanks, key, rank) ==
    {p \in tokenRanks : p[1] # key} \cup {<<key, rank>>}

\* "Merge in the ID sequence": left to right, without overlap.
RECURSIVE mergeIDs(_, _, _, _, _)
mergeIDs(ids, i, id1, id2, newID) ==
    IF i > Len(ids) THEN <<>>
    ELSE IF i < Len(ids) /\ ids[i] = id1 /\ ids[i + 1] = id2
         THEN <<newID>> \o mergeIDs(ids, i + 2, id1, id2, newID)
         ELSE <<ids[i]>> \o mergeIDs(ids, i + 1, id1, id2, newID)

TrainInit ==
    /\ \E text \in TrainTexts, numMerges \in 0..MaxMerges :
          bpe = [pc |-> "train", text |-> text, numMerges |-> numMerges,
                 tokenRanks |-> basicTokens, ids |-> text, nextRank |-> 256, merge |-> 0,
                 size |-> 0]
    /\ ans = idle /\ comp = idle /\ req = idle /\ entries = <<>> /\ zip = noZip
    /\ files = idle /\ out = idle /\ pc = "train" /\ shared = idle /\ procs = idle

\* The loop condition without the break on bestCount < 2.
trainGoesOnAnyCount ==
    bpe.merge < bpe.numMerges /\ pairKeys(bpe.ids) # {}

\* The loop of Train goes on: merge < numMerges, and neither break is taken.
trainGoesOn ==
    bpe.merge < bpe.numMerges /\ pairKeys(bpe.ids) # {} /\ bestCountOf(bpe.ids) >= 2

\* One iteration of the loop of Train.
TrainMerge ==
    /\ pc = "train" /\ bpe.pc = "train" /\ trainGoesOn
    /\ \E bestPair \in bestPairs(bpe.ids) :
         \E b1 \in bytesOfRank(bpe.tokenRanks, pairOfKey(bestPair)[1]),
            b2 \in bytesOfRank(bpe.tokenRanks, pairOfKey(bestPair)[2]) :
            bpe' = [bpe EXCEPT
                      !.tokenRanks = rankPut(@, b1 \o b2, bpe.nextRank),
                      !.nextRank = @ + 1,
                      !.ids = mergeIDs(bpe.ids, 1, pairOfKey(bestPair)[1],
                                       pairOfKey(bestPair)[2], bpe.nextRank),
                      !.merge = @ + 1]
    /\ UNCHANGED <<ans, comp, req, entries, zip, files, out, pc, shared, procs>>

\* The loop ends and Train returns NewVocabulary(tokenRanks); size is the
\* Size() of the vocabulary returned.
TrainReturn ==
    /\ pc = "train" /\ bpe.pc = "train" /\ ~trainGoesOn
    /\ bpe' = [bpe EXCEPT !.pc = "trained", !.size = VocabSize(NewVocabulary(bpe.tokenRanks))]
    /\ UNCHANGED <<ans, comp, req, entries, zip, files, out, pc, shared, procs>>

TrainNext == TrainMerge \/ TrainReturn

SpecTrain == TrainInit /\ [][TrainNext]_vars

\* C26: Train stops after numMerges merges or as soon as the most frequent
\* adjacent pair occurs fewer than 2 times (it merges only while neither is
\* the case), and the vocabulary it returns holds exactly 256 + (merges
\* performed) tokens, at most 256 + numMerges.
C26_TrainSize ==
    [][pc = "train" =>
         /\ bpe'.merge > bpe.merge
                => (bpe.merge < bpe.numMerges /\ bestCountOf(bpe.ids) >= 2)
         /\ bpe'.pc = "trained"
                => /\ bpe.merge = bpe.numMerges \/ bestCountOf(bpe.ids) < 2
                   /\ bpe'.size = 256 + bpe.merge
                   /\ bpe'.size <= 256 + bpe.numMerges]_vars

\* Train has returned before the full number of merges, with at least one
\* merge performed.
C26_Witness ==
    pc = "train" /\ bpe.pc = "trained" /\ bpe.merge >= 1 /\ bpe.merge < bpe.numMerges

(***************************************************************************)
(* The rANS Encoder on its own: NewEncoder, then Encode and Reset in any   *)
(* order, with symbols of a table whose frequencies sum to ProbScale.      *)
(***************************************************************************)
MaxEncodes == 5

\* normalized: the frequencies f[k] for the symbols syms[k], 0 elsewhere.
freqsOf(syms, f) ==
    [i \in 1..256 |-> IF \E k \in 1..Len(syms) : syms[k] = i - 1
                      THEN f[CHOOSE k \in 1..Len(syms) : syms[k] = i - 1] ELSE 0] \o <<>>

\* Frequencies that sum to ProbScale: one symbol, a rare and a frequent
\* symbol, equal halves, two rare symbols, thirds.
EncoderFreqs ==
    {freqsOf(<<0>>, <<ProbScale>>),
     freqsOf(<<0, 116>>, <<1, ProbScale - 1>>),
     freqsOf(<<0, 255>>, <<ProbScale \div 2, ProbScale \div 2>>),
     freqsOf(<<0, 116, 255>>, <<1, 1, ProbScale - 2>>),
     freqsOf(<<0, 116, 255>>, <<5461, 5461, 5462>>)}

\* The symbols passed to Encode; 7 has frequency 0 in every table.
EncoderSyms == {0, 7, 116, 255}

EncoderInit ==
    /\ \E f \in EncoderFreqs :
          ans = [pc |-> "encoder", tab |-> tableOf(f), enc |-> NewAnsEncoder, calls |-> 0,
                 last |-> "NewEncoder"]
    /\ bpe = idle /\ comp = idle /\ req = idle /\ entries = <<>> /\ zip = noZip
    /\ files = idle /\ out = idle /\ pc = "encoder" /\ shared = idle /\ procs = idle

\* e.Encode(sym, tab)
EncoderEncode ==
    /\ pc = "encoder" /\ ans.calls < MaxEncodes
    /\ \E sym \in EncoderSyms :
          ans' = [ans EXCEPT !.enc = AnsEncode(@, sym, ans.tab), !.calls = @ + 1,
                             !.last = IF ans.tab.freq[sym + 1] = 0 THEN "skipped" ELSE "Encode"]
    /\ UNCHANGED <<bpe, comp, req, entries, zip, files, out, pc, shared, procs>>

\* e.Reset()
EncoderReset ==
    /\ pc = "encoder" /\ ans.calls < MaxEncodes /\ ans.last # "Reset"
    /\ ans' = [ans EXCEPT !.enc = AnsReset(@), !.calls = @ + 1, !.last = "Reset"]
    /\ UNCHANGED <<bpe, comp, req, entries, zip, files, out, pc, shared, procs>>

EncoderNext == EncoderEncode \/ EncoderReset

SpecEncoder == EncoderInit /\ [][EncoderNext]_vars

\* C27: after NewEncoder or Reset, and after every Encode of a symbol of
\* non-zero frequency from a table whose frequencies sum to 16384, the
\* encoder state satisfies 2^23 <= state < 2^31.
C27_StateInRange ==
    (pc = "encoder" /\ Sum(ans.tab.freq) = ProbScale)
        => (ans.enc.state >= RansL /\ ans.enc.state <= MaxInt)

\* Encode has renormalised (bytes were written) and the state is above the
\* lower limit, for a table of more than one symbol.
C27_Witness ==
    /\ pc = "encoder" /\ ans.last = "Encode" /\ ans.enc.output # <<>>
    /\ ans.enc.state > 2 * RansL /\ ans.tab.freq[1] < ProbScale

(***************************************************************************)
(* Decompress next to DecompressFile of the first listed entry, on the     *)
(* archives of SpecAll.                                                     *)
(***************************************************************************)
\* c.Decompress(zip)
BothFirst ==
    /\ pc = "archive" /\ zip.pc = "built" /\ out = idle
    /\ \E r \in {Decompress(comp, zip.data)} :
          out' = [pc |-> "first", err |-> r.err, data |-> r.data]
    /\ UNCHANGED <<bpe, ans, comp, req, entries, zip, files, pc, shared, procs>>

\* c.DecompressFile(zip, files[0]), files being what ListFiles(zip) returned.
BothByInfo ==
    /\ pc = "archive" /\ files.pc = "listed" /\ out.pc = "first"
    /\ files.err = "nil" /\ Len(files.files) >= 1
    /\ \E r \in {DecompressFile(comp, zip.data, files.files[1])} :
          out' = [pc |-> "both", first |-> [err |-> out.err, data |-> out.data],
                  byInfo |-> [err |-> r.err, data |-> r.data]]
    /\ UNCHANGED <<bpe, ans, comp, req, entries, zip, files, pc, shared, procs>>

BothNext ==
    \/ ArchAdd \/ ArchAddStore \/ ArchAddDirectory \/ ArchAddSymlink \/ AllAddSlash
    \/ ArchBytes \/ ArchList \/ BothFirst \/ BothByInfo

SpecBoth == ArchInit /\ [][BothNext]_vars

\* C28: for every single-entry archive, Decompress(archive) and
\* DecompressFile(archive, ListFiles(archive)[0]) return the same bytes and
\* the same error outcome, whatever the name, method and sizes of the entry.
C28_FirstEqualsByInfo ==
    (pc = "archive" /\ out.pc = "both" /\ Len(entries) = 1)
        => out.first = out.byInfo

(***************************************************************************)
(* encodeVarints and decodeVarints over the whole range of int.  int is 64 *)
(* bits wide (amd64, arm64); a value is <<l0, l1, l2>>, its bits 0..27,    *)
(* 28..55 and 56..63, so that l2 >= 128 is a negative int.                 *)
(***************************************************************************)
VarintLen == 2

limb == Pow2(28)

int64(n) == <<n % limb, n \div limb, 0>>

\* v >= 0x80
atLeast0x80(v) == v[3] < 128 /\ (v[3] > 0 \/ v[2] > 0 \/ v[1] >= 128)

\* v >>= 8 in the place of v >>= 7.
shr8(v) ==
    <<v[1] \div 256 + (v[2] % 256) * Pow2(20),
      v[2] \div 256 + (v[3] % 256) * Pow2(20),
      IF v[3] >= 128 THEN 255 ELSE 0>>

\* v >>= 7, the sign bit copied into the bits that are freed.
shr7(v) ==
    <<v[1] \div 128 + (v[2] % 128) * Pow2(21),
      v[2] \div 128 + (v[3] % 128) * Pow2(21),
      v[3] \div 128 + (IF v[3] >= 128 THEN 254 ELSE 0)>>

\* buf[pos] = b; pos++ : an index of len(buf) or more panics.
putByte(st, b) ==
    IF st.panic THEN st
    ELSE IF st.pos >= Len(st.buf) THEN [st EXCEPT !.panic = TRUE]
    ELSE [st EXCEPT !.buf[st.pos + 1] = b, !.pos = @ + 1]

\* The body of "for _, v := range values": the bytes of one value.
RECURSIVE putVarint(_, _)
putVarint(st, v) ==
    IF st.panic THEN st
    ELSE IF atLeast0x80(v) THEN putVarint(putByte(st, (v[1] % 128) + 128), shr7(v))
    ELSE putByte(st, v[1] % 256)

\* encodeVarints with its buffer of len(values)*5 bytes: [panic, buf, pos,
\* ends]; ends[i] is pos after the i-th value.
encodeVarints64(values) ==
    FoldRange(LAMBDA st, i : IF st.panic THEN st
                             ELSE [putVarint(st, values[i]) EXCEPT
                                      !.ends = Append(@, putVarint(st, values[i]).pos)],
              [panic |-> FALSE, buf |-> [k \in 1..(Len(values) * 5) |-> 0] \o <<>>, pos |-> 0,
               ends |-> <<>>],
              1, Len(values))

\* v |= int(b&0x7F) << shift: the shifts are multiples of 7, so the groups
\* fill bits that are still 0 and never straddle a limb except at 63, where
\* only the lowest bit of the group stays in the int; a shift of 64 or more
\* gives 0.
orShifted(v, c, shift) ==
    IF shift >= 64 THEN v
    ELSE IF shift = 63 THEN <<v[1], v[2], v[3] + (c % 2) * 128>>
    ELSE IF shift >= 56 THEN <<v[1], v[2], v[3] + c>>
    ELSE IF shift >= 28 THEN <<v[1], v[2] + c * Pow2(shift - 28), v[3]>>
    ELSE <<v[1] + c * Pow2(shift), v[2], v[3]>>

\* One byte of decodeVarints' loop.
varintStep64(s, b) ==
    IF b < 128
    THEN [values |-> Append(s.values, orShifted(s.v, b % 128, s.shift)), v |-> int64(0),
          shift |-> 0, open |-> FALSE]
    ELSE [values |-> s.values, v |-> orShifted(s.v, b % 128, s.shift), shift |-> s.shift + 7,
          open |-> TRUE]

decodeVarints64(data) ==
    varintEnd(FoldRange(LAMBDA s, i : varintStep64(s, data[i]),
                        [values |-> <<>>, v |-> int64(0), shift |-> 0, open |-> FALSE],
                        1, Len(data)))

\* 2^35, the first value that needs six bytes.
pow35 == <<0, 128, 0>>

\* The values of TestVarints and the ends of the 4-, 5- and 9-byte ranges.
VarintIds ==
    {int64(0), int64(1), int64(127), int64(128), int64(255), int64(16383), int64(16384),
     int64(limb - 1), int64(limb), <<limb - 1, 127, 0>>, pow35, <<limb - 1, limb - 1, 127>>}

VarintInit ==
    /\ \E ids \in SeqsUpTo(VarintIds, VarintLen) :
          out = [pc |-> "ids", ids |-> ids, panic |-> FALSE, enc |-> <<>>, ends |-> <<>>,
                 dec |-> <<>>]
    /\ bpe = idle /\ comp = idle /\ req = idle /\ entries = <<>> /\ zip = noZip /\ ans = idle
    /\ files = idle /\ pc = "varints" /\ shared = idle /\ procs = idle

\* encodeVarints(ids)
VarintEncode ==
    /\ pc = "varints" /\ out.pc = "ids"
    /\ \E st \in {encodeVarints64(out.ids)} :
          out' = [out EXCEPT !.pc = IF st.panic THEN "panic" ELSE "encoded",
                             !.panic = st.panic,
                             !.enc = IF st.panic THEN <<>> ELSE SubSeq(st.buf, 1, st.pos),
                             !.ends = st.ends]
    /\ UNCHANGED <<bpe, ans, comp, req, entries, zip, files, pc, shared, procs>>

\* decodeVarints of what encodeVarints returned.
VarintDecode ==
    /\ pc = "varints" /\ out.pc = "encoded"
    /\ out' = [out EXCEPT !.pc = "decoded", !.dec = decodeVarints64(out.enc)]
    /\ UNCHANGED <<bpe, ans, comp, req, entries, zip, files, pc, shared, procs>>

VarintNext == VarintEncode \/ VarintDecode

SpecVarints == VarintInit /\ [][VarintNext]_vars

\* The bytes written for the i-th id: at most 5, the high bit set on every
\* byte except the last.
groupsOf(o, i) == SubSeq(o.enc, (IF i = 1 THEN 0 ELSE o.ends[i - 1]) + 1, o.ends[i])

wellFormed(g) ==
    /\ Len(g) >= 1 /\ Len(g) <= 5
    /\ \A k \in 1..Len(g) : (g[k] >= 128) <=> (k < Len(g))

roundTrip(o) ==
    /\ o.pc # "panic"
    /\ o.pc = "decoded" => (o.dec = o.ids /\ \A i \in 1..Len(o.ids) : wellFormed(groupsOf(o, i)))

\* C30, as stated: for every sequence of non-negative ids,
\* decodeVarints(encodeVarints(ids)) is ids, each id is written as
\* little-endian 7-bit groups with the high bit set on every byte except the
\* last, and encodeVarints never writes beyond the 5 bytes per id it
\* allocates.
C30_VarintRoundTrip == pc = "varints" => roundTrip(out)

\* C30, amended: the same for every sequence of ids below 2^35.
C30_VarintRoundTripBelow35Bits ==
    (pc = "varints" /\ \A i \in 1..Len(out.ids) : out.ids[i][3] = 0 /\ out.ids[i][2] < 128)
        => roundTrip(out)

\* Two ids, the largest below 2^35 among them, have been encoded into ten
\* bytes or fewer and decoded.
C30_Witness ==
    /\ pc = "varints" /\ out.pc = "decoded" /\ Len(out.ids) = 2
    /\ out.ids[2] = <<limb - 1, 127, 0>> /\ Len(groupsOf(out, 2)) = 5

====
